---- MODULE Spec2Model ----
(***************************************************************************)
(* Model of pypouch's decimal-precision formatting:                        *)
(*   precision_control._format_decimal       (scalar formatter)            *)
(*   precision_control.control_decimal_precision (column applier)          *)
(*   datatype_utils.col_to_str               (string coercion)             *)
(*                                                                         *)
(* Text is modelled as a sequence of one-character strings, so that        *)
(* str(), Decimal(), Decimal.__str__ and str.rstrip are computed character *)
(* by character, the way the library computes them.                        *)
(***************************************************************************)
EXTENDS Integers, Sequences, FiniteSets, TLC

(***************************************************************************)
(* Bounds of the model.                                                    *)
(***************************************************************************)
\* precisions n range over 0..MaxN in the scalar specification
MaxN == 11
\* strings over StrAlphabet are enumerated up to this length
MaxStrLen == 3
\* finite floats have their decimal point position in -MaxNegDecpt..MaxDecpt
MaxNegDecpt == 10
MaxDecpt == 2
\* tables have up to MaxRows rows
MaxRows == 2
\* column lists have up to MaxListLen names
MaxListLen == 2

(***************************************************************************)
(* Characters and text.                                                    *)
(***************************************************************************)
DigitChars == <<"0", "1", "2", "3", "4", "5", "6", "7", "8", "9">>

DigitSet == {DigitChars[i] : i \in 1..10}

IsDigit(c) == c \in DigitSet

DigitVal(c) == CHOOSE d \in 0..9 : DigitChars[d + 1] = c

DigitChar(d) == DigitChars[d + 1]

\* k copies of the character c  ("0" * k)
RECURSIVE Rep(_, _)
Rep(c, k) == IF k <= 0 THEN <<>> ELSE <<c>> \o Rep(c, k - 1)

\* text of a natural number (what "%d" prints for it)
RECURSIVE NatText(_)
NatText(k) == IF k < 10 THEN <<DigitChar(k)>>
              ELSE NatText(k \div 10) \o <<DigitChar(k % 10)>>

\* value of a digit string (int("..."), for short strings)
RECURSIVE TextNat(_)
TextNat(s) == IF s = <<>> THEN 0
              ELSE 10 * TextNat(SubSeq(s, 1, Len(s) - 1)) + DigitVal(s[Len(s)])

\* s.lstrip(c)
RECURSIVE LStrip(_, _)
LStrip(s, c) == IF s # <<>> /\ s[1] = c THEN LStrip(Tail(s), c) ELSE s

\* s.rstrip(c)
RECURSIVE RStrip(_, _)
RStrip(s, c) == IF s # <<>> /\ s[Len(s)] = c
                THEN RStrip(SubSeq(s, 1, Len(s) - 1), c) ELSE s

\* c in s
Contains(s, c) == \E i \in 1..Len(s) : s[i] = c

\* s.endswith(c)
EndsWith(s, c) == s # <<>> /\ s[Len(s)] = c

\* s.replace(c, "")
RECURSIVE Remove(_, _)
Remove(s, c) == IF s = <<>> THEN <<>>
                ELSE IF s[1] = c THEN Remove(Tail(s), c)
                ELSE <<s[1]>> \o Remove(Tail(s), c)

\* s.lower(), on the letters the decimal grammar looks at
LowerChar(c) == CASE c = "N" -> "n" [] c = "A" -> "a" [] c = "I" -> "i"
                  [] c = "F" -> "f" [] c = "S" -> "s" [] c = "E" -> "e"
                  [] c = "T" -> "t" [] c = "Y" -> "y" [] OTHER -> c

Lower(s) == [i \in 1..Len(s) |-> LowerChar(s[i])]

\* first index >= i of s that does not hold a digit (Len(s)+1 when none)
RECURSIVE SpanDigits(_, _)
SpanDigits(s, i) == IF i <= Len(s) /\ IsDigit(s[i]) THEN SpanDigits(s, i + 1)
                    ELSE i

AllDigits(s) == \A i \in 1..Len(s) : IsDigit(s[i])

(***************************************************************************)
(* Python values handed to _format_decimal.  One record shape for all:     *)
(*   kind   "None" | "NA" | "nan" | "inf" | "float" | "int" | "str"        *)
(*          | "list" | "dict"                                              *)
(*   neg    sign of an int, float or infinity                              *)
(*   digits int: its decimal digits; finite float: the digits of its       *)
(*          shortest round-trip repr (no leading or trailing zero, "0" for *)
(*          zero)                                                          *)
(*   decpt  finite float: position of the decimal point, the value being   *)
(*          0.d1d2...dk * 10^decpt                                         *)
(*   text   str: its characters; list, dict: the characters of str(value)  *)
(***************************************************************************)
PyNone == [kind |-> "None", neg |-> FALSE, digits |-> <<>>, decpt |-> 0, text |-> <<>>]

PdNA == [kind |-> "NA", neg |-> FALSE, digits |-> <<>>, decpt |-> 0, text |-> <<>>]

FloatNaN == [kind |-> "nan", neg |-> FALSE, digits |-> <<>>, decpt |-> 0, text |-> <<>>]

FloatInf(neg) == [kind |-> "inf", neg |-> neg, digits |-> <<>>, decpt |-> 0, text |-> <<>>]

PyFloat(neg, digits, decpt) ==
    [kind |-> "float", neg |-> neg, digits |-> digits, decpt |-> decpt, text |-> <<>>]

PyInt(neg, digits) ==
    [kind |-> "int", neg |-> neg, digits |-> digits, decpt |-> 0, text |-> <<>>]

PyString(text) == [kind |-> "str", neg |-> FALSE, digits |-> <<>>, decpt |-> 0, text |-> text]

\* a list of two or more elements, e.g. [1, 2]
PyList == [kind |-> "list", neg |-> FALSE, digits |-> <<>>, decpt |-> 0,
           text |-> <<"[", "1", ",", " ", "2", "]">>]

\* an empty dict, {}
PyDict == [kind |-> "dict", neg |-> FALSE, digits |-> <<>>, decpt |-> 0,
           text |-> <<"{", "}">>]

SignText(neg) == IF neg THEN <<"-">> ELSE <<>>

\* repr of a finite float (float_repr_style "short", format code 'r'):
\* exponent form when decpt <= -4 or decpt > 16, else fixed with ".0" added
FloatRepr(v) ==
    LET d == v.digits
        k == Len(d)
        p == v.decpt
        e == p - 1
        etext == IF e < 0 THEN <<"-">> \o (IF -e < 10 THEN <<"0">> ELSE <<>>) \o NatText(-e)
                 ELSE <<"+">> \o (IF e < 10 THEN <<"0">> ELSE <<>>) \o NatText(e)
        body == IF p <= -4 \/ p > 16
                THEN <<d[1]>> \o (IF k > 1 THEN <<".">> \o SubSeq(d, 2, k) ELSE <<>>)
                     \o <<"e">> \o etext
                ELSE IF p <= 0 THEN <<"0", ".">> \o Rep("0", -p) \o d
                ELSE IF p >= k THEN d \o Rep("0", p - k) \o <<".", "0">>
                ELSE SubSeq(d, 1, p) \o <<".">> \o SubSeq(d, p + 1, k)
    IN SignText(v.neg) \o body

\* str(value)
PyStr(v) ==
    CASE v.kind = "None" -> <<"N", "o", "n", "e">>
      [] v.kind = "NA" -> <<"<", "N", "A", ">">>
      [] v.kind = "nan" -> <<"n", "a", "n">>
      [] v.kind = "inf" -> SignText(v.neg) \o <<"i", "n", "f">>
      [] v.kind = "float" -> FloatRepr(v)
      [] v.kind = "int" -> SignText(v.neg) \o v.digits
      [] OTHER -> v.text

\* pd.isna replaced by a test for None and pd.NA only (float NaN slips through)
PdIsNaNoneOnly(v) ==
    CASE v.kind \in {"None", "NA"} -> "true"
      [] v.kind = "list" -> "ValueError"
      [] OTHER -> "false"

\* pd.isna(value) used as the condition of an if:  "true", "false", or
\* "ValueError" when the answer is an array whose truth value is ambiguous
PdIsNa(v) ==
    CASE v.kind \in {"None", "NA", "nan"} -> "true"
      [] v.kind = "list" -> "ValueError"
      [] OTHER -> "false"

\* isinstance(value, (int, float)) and (value == inf or value == -inf)
IsIntOrFloat(v) == v.kind \in {"int", "float", "inf", "nan"}

IsInfinite(v) == IsIntOrFloat(v) /\ v.kind = "inf"

(***************************************************************************)
(* decimal.Decimal.  A Decimal is [special, sign, int, exp]:               *)
(*   special ""  finite: value is (-1)^sign * int * 10^exp                 *)
(*           "F" infinity, "n" quiet NaN, "N" signalling NaN               *)
(*   int     coefficient digits as text (diagnostic digits for a NaN)      *)
(* BadDecimal stands for the InvalidOperation the constructor raises.      *)
(***************************************************************************)
BadDecimal == [special |-> "bad", sign |-> FALSE, int |-> <<>>, exp |-> 0]

MkDecimal(special, sign, int, exp) ==
    [special |-> special, sign |-> sign, int |-> int, exp |-> exp]

\* str(int(digits)) for a digit string: leading zeros dropped, "0" if none left
IntText(digits) == LET t == LStrip(digits, "0") IN IF t = <<>> THEN <<"0">> ELSE t

\* value.strip() on blanks
StripBlanks(s) == RStrip(LStrip(s, " "), " ")

\* Decimal(text): the constructor's grammar
\*   [sign] ( digits [. digits] [E [sign] digits] | Inf[inity] | [s]NaN[digits] )
\* after strip() and removal of underscores, letters in either case.
\* The stages below read the text from left to right.

\* the alternatives Inf, Infinity, NaN and sNaN with diagnostic digits
DecimalOfSpecial(sign, b) ==
    LET nb == IF b # <<>> /\ b[1] = "s" THEN Tail(b) ELSE b
    IN IF b = <<"i", "n", "f">> \/ b = <<"i", "n", "f", "i", "n", "i", "t", "y">>
       THEN MkDecimal("F", sign, <<"0">>, 0)
       ELSE IF /\ Len(nb) >= 3
               /\ SubSeq(nb, 1, 3) = <<"n", "a", "n">>
               /\ AllDigits(SubSeq(nb, 4, Len(nb)))
       THEN MkDecimal(IF b[1] = "s" THEN "N" ELSE "n", sign,
                      LStrip(SubSeq(nb, 4, Len(nb)), "0"), 0)
       ELSE BadDecimal

\* the exponent part: etext is what follows the E
DecimalOfExponent(sign, digits, fraclen, etext) ==
    LET expdigits == IF etext # <<>> /\ etext[1] \in {"-", "+"} THEN Tail(etext) ELSE etext
    IN IF expdigits = <<>> \/ ~AllDigits(expdigits) THEN BadDecimal
       ELSE MkDecimal("", sign, IntText(digits),
                      (IF etext[1] = "-" THEN -TextNat(expdigits) ELSE TextNat(expdigits))
                          - fraclen)

\* b[1..i1-1] is the integer part, b[i1+1..i2-1] the fraction (when b[i1] = ".")
DecimalOfNumber(sign, b, i1, i2) ==
    LET intpart == SubSeq(b, 1, i1 - 1)
        fracpart == SubSeq(b, i1 + 1, i2 - 1)
    IN IF intpart = <<>> /\ fracpart = <<>> THEN DecimalOfSpecial(sign, b)
       ELSE IF i2 = Len(b) + 1
       THEN MkDecimal("", sign, IntText(intpart \o fracpart), -Len(fracpart))
       ELSE IF b[i2] = "e"
       THEN DecimalOfExponent(sign, intpart \o fracpart, Len(fracpart),
                              SubSeq(b, i2 + 1, Len(b)))
       ELSE BadDecimal

DecimalOfInt(sign, b, i1) ==
    DecimalOfNumber(sign, b, i1,
                    IF i1 <= Len(b) /\ b[i1] = "." THEN SpanDigits(b, i1 + 1) ELSE i1)

DecimalOfSigned(s0) ==
    DecimalOfInt(s0 # <<>> /\ s0[1] = "-",
                 Lower(IF s0 # <<>> /\ s0[1] \in {"-", "+"} THEN Tail(s0) ELSE s0),
                 SpanDigits(Lower(IF s0 # <<>> /\ s0[1] \in {"-", "+"} THEN Tail(s0) ELSE s0), 1))

DecimalOf(text) == DecimalOfSigned(Remove(StripBlanks(text), "_"))

\* the default context's precision (decimal.getcontext().prec)
DecimalPrec == 28

\* str(int(coeff) + 1) for a digit string
RECURSIVE Incr(_)
Incr(s) == IF s = <<>> THEN <<"1">>
           ELSE IF s[Len(s)] = "9" THEN Incr(SubSeq(s, 1, Len(s) - 1)) \o <<"0">>
           ELSE SubSeq(s, 1, Len(s) - 1) \o <<DigitChar(DigitVal(s[Len(s)]) + 1)>>

\* _round_half_up: 1 when the first discarded digit is 5 or more
RoundHalfUp(int, prec) == IF int[prec + 1] \in {"5", "6", "7", "8", "9"} THEN 1 ELSE 0

\* _rescale when digits are dropped: keep the first `digits` digits of int
\* and add one when _round_half_up says so
RescaleDown(sign, int, digits, exp) ==
    LET coeff == IF digits = 0 THEN <<"0">> ELSE SubSeq(int, 1, digits)
    IN MkDecimal("", sign,
                 IF RoundHalfUp(int, digits) = 1 THEN IntText(Incr(coeff)) ELSE coeff,
                 exp)

\* Decimal._rescale(exp, ROUND_HALF_UP) of a non-zero finite Decimal
Rescale(d, exp) ==
    IF d.exp >= exp
    THEN MkDecimal("", d.sign, d.int \o Rep("0", d.exp - exp), exp)
    ELSE IF Len(d.int) + d.exp - exp < 0
    THEN RescaleDown(d.sign, <<"1">>, 0, exp)
    ELSE RescaleDown(d.sign, d.int, Len(d.int) + d.exp - exp, exp)

\* quantize's last test: the rescaled coefficient must fit the precision
QuantizeFits(ans) == IF Len(ans.int) > DecimalPrec THEN BadDecimal ELSE ans

\* quantize to the exponent exp
QuantizeExp(d, exp) ==
    CASE d.special = "N" -> BadDecimal
      [] d.special = "n" -> d
      [] d.special = "F" -> BadDecimal
      [] d.int = <<"0">> -> MkDecimal("", d.sign, <<"0">>, exp)
      [] d.exp + Len(d.int) - 1 - exp + 1 > DecimalPrec -> BadDecimal
      [] OTHER -> QuantizeFits(Rescale(d, exp))

\* decimal_value.quantize(Decimal("0." + "0" * n), rounding=ROUND_HALF_UP)
\* BadDecimal stands for the InvalidOperation it raises
Quantize(d, nd) == QuantizeExp(d, DecimalOf(<<"0", ".">> \o Rep("0", nd)).exp)

\* "%+d" % k
SignedText(k) == IF k < 0 THEN <<"-">> \o NatText(-k) ELSE <<"+">> \o NatText(k)

\* Decimal.__str__: scientific notation when the exponent is positive or the
\* number has more than six zeros between the point and its first digit
DecimalStr(d) ==
    LET sign == SignText(d.sign)
        k == Len(d.int)
        leftdigits == d.exp + k
        dotplace == IF d.exp <= 0 /\ leftdigits > -6 THEN leftdigits ELSE 1
        intpart == IF dotplace <= 0 THEN <<"0">>
                   ELSE IF dotplace >= k THEN d.int \o Rep("0", dotplace - k)
                   ELSE SubSeq(d.int, 1, dotplace)
        fracpart == IF dotplace <= 0 THEN <<".">> \o Rep("0", -dotplace) \o d.int
                    ELSE IF dotplace >= k THEN <<>>
                    ELSE <<".">> \o SubSeq(d.int, dotplace + 1, k)
        exp == IF leftdigits = dotplace THEN <<>>
               ELSE <<"E">> \o SignedText(leftdigits - dotplace)
    IN CASE d.special = "F" -> sign \o <<"I", "n", "f", "i", "n", "i", "t", "y">>
         [] d.special = "n" -> sign \o <<"N", "a", "N">> \o d.int
         [] d.special = "N" -> sign \o <<"s", "N", "a", "N">> \o d.int
         [] OTHER -> sign \o intpart \o fracpart \o exp

(***************************************************************************)
(* _format_decimal(value, n).  The result records what the call did:       *)
(*   ret     the string returned ("" is <<>>)                              *)
(*   raised  the exception that leaves the function, "" when it returns    *)
(*   steps   the statements executed, in order                             *)
(***************************************************************************)
\* an except clause that forgets InvalidOperation
CaughtWithoutInvalidOperation == {"ValueError", "TypeError"}

\* the exception classes named by the except clause
CaughtExceptions == {"ValueError", "TypeError", "InvalidOperation"}

\* the except clause: a caught exception becomes the empty string
Except(exc, steps) ==
    IF exc \in CaughtExceptions
    THEN [ret |-> <<>>, raised |-> "", steps |-> steps \o <<"except">>]
    ELSE [ret |-> <<>>, raised |-> exc, steps |-> steps]

Return(ret, steps) == [ret |-> ret, raised |-> "", steps |-> steps]

\* lines 76-77: a text left ending in "." gets one "0" back
RestoreZero(stripped) == IF EndsWith(stripped, ".") THEN stripped \o <<"0">> ELSE stripped

\* the stripping done without the test for a point
StripTrailingZerosAlways(result_str) == RestoreZero(RStrip(result_str, "0"))

\* lines 72-77: strip the trailing zeros when the text has a point
StripTrailingZeros(result_str) ==
    IF Contains(result_str, ".") THEN RestoreZero(RStrip(result_str, "0"))
    ELSE result_str

\* lines 69-80, once quantize has answered
FormatQuantized(quantized) ==
    IF quantized = BadDecimal
    THEN Except("InvalidOperation", <<"isna", "isinf", "Decimal", "quantize">>)
    ELSE Return(StripTrailingZeros(DecimalStr(quantized)),
                <<"isna", "isinf", "Decimal", "quantize", "str">>)

\* lines 66-80, once Decimal() has answered
FormatParsed(decimal_value, nd) ==
    IF decimal_value = BadDecimal
    THEN Except("InvalidOperation", <<"isna", "isinf", "Decimal">>)
    ELSE FormatQuantized(Quantize(decimal_value, nd))

\* 0.15
Float015 == PyFloat(FALSE, <<"1", "5">>, 0)

\* the first digits of the binary value of the float 0.15
Binary015 == <<"0", ".", "1", "4", "9", "9", "9", "9", "9", "9", "9", "9", "9", "9", "9", "9",
               "9", "9", "9", "9", "4", "4">>

\* Decimal(value) in place of Decimal(str(value)): a float enters with its
\* binary value instead of its shortest text
FormatDecimalBinary(val, nd) ==
    CASE PdIsNa(val) = "ValueError" -> Except("ValueError", <<"isna">>)
      [] PdIsNa(val) = "true" -> Return(<<>>, <<"isna">>)
      [] IsInfinite(val) -> Return(<<>>, <<"isna", "isinf">>)
      [] OTHER -> FormatParsed(DecimalOf(IF val = Float015 THEN Binary015 ELSE PyStr(val)), nd)

\* _format_decimal(value, n)
FormatDecimal(val, nd) ==
    CASE PdIsNa(val) = "ValueError" -> Except("ValueError", <<"isna">>)
      [] PdIsNa(val) = "true" -> Return(<<>>, <<"isna">>)
      [] IsInfinite(val) -> Return(<<>>, <<"isna", "isinf">>)
      [] OTHER -> FormatParsed(DecimalOf(PyStr(val)), nd)

(***************************************************************************)
(* Tables (pandas DataFrames).  A table maps each of its column names to a *)
(* column [dtype, vals]; vals holds the cells as Python values, in row     *)
(* order.  DataFrames are objects: heap is the sequence of the DataFrame   *)
(* objects created so far and a reference is an index into it.             *)
(***************************************************************************)
MkColumn(dtype, vals) == [dtype |-> dtype, vals |-> vals]

\* pd.api.types.is_string_dtype(series): the string extension dtype, or an
\* object column that is not empty and holds nothing but str
IsStringDtype(col) ==
    \/ col.dtype = "string"
    \/ /\ col.dtype = "object"
       /\ col.vals # <<>>
       /\ \A i \in 1..Len(col.vals) : col.vals[i].kind = "str"

\* series.astype("string"): missing cells become pd.NA, the others str(cell)
AsTypeString(col) ==
    MkColumn("string",
             [i \in 1..Len(col.vals) |->
                 IF col.vals[i].kind \in {"None", "NA", "nan"} THEN PdNA
                 ELSE PyString(PyStr(col.vals[i]))])

\* series.apply(lambda x: _format_decimal(x, n)): an empty series comes back
\* as it is, otherwise the results form an object column, row by row
SeriesApplyFormat(col, nd) ==
    IF col.vals = <<>> THEN col
    ELSE MkColumn("object",
                  [i \in 1..Len(col.vals) |-> PyString(FormatDecimal(col.vals[i], nd).ret)])

\* what a function working on the heap hands back:
\*   heap   the objects after it ran
\*   raised the exception leaving it ("" when it returns)
\*   ret    the reference it returns (0 for None or no return)
Outcome(h, raised, ret) == [heap |-> h, raised |-> raised, ret |-> ret]

\* no copy: df_copy is the caller's object itself
CopyFrameAlias(h, ref) == Outcome(h, "", ref)

\* df.copy(): a new object with the same columns and cells
CopyFrame(h, ref) == Outcome(Append(h, h[ref]), "", Len(h) + 1)

\* col_to_str lines 122-134: the loop over cols_list on the object target.
\* Any exception in the body, a missing column included, is raised again as
\* ValueError.
RECURSIVE ColToStrLoop(_, _, _, _)
ColToStrLoop(h, target, cols_list, i) ==
    IF i > Len(cols_list) THEN Outcome(h, "", 0)
    ELSE LET col == cols_list[i]
         IN IF col \notin DOMAIN h[target] THEN Outcome(h, "ValueError", 0)
            ELSE IF IsStringDtype(h[target][col])
            THEN ColToStrLoop(h, target, cols_list, i + 1)
            ELSE ColToStrLoop([h EXCEPT ![target][col] = AsTypeString(@)],
                              target, cols_list, i + 1)

\* col_to_str converting every column of the table, listed or not
ColToStrEveryColumn(h, dfref, cols_list, inplace) ==
    Outcome([h EXCEPT ![dfref] = [c \in DOMAIN @ |->
                                  IF IsStringDtype(@[c]) THEN @[c] ELSE AsTypeString(@[c])]],
            "", 0)

\* col_to_str lines 136-137: the converted copy is returned unless inplace
ColToStrReturn(done, target_df, inplace) ==
    IF done.raised # "" THEN done
    ELSE Outcome(done.heap, "", IF inplace THEN 0 ELSE target_df)

\* col_to_str on the object target_df of the heap h0
ColToStrOn(h0, target_df, cols_list, inplace) ==
    ColToStrReturn(ColToStrLoop(h0, target_df, cols_list, 1), target_df, inplace)

\* col_to_str working on df itself whatever inplace says
ColToStrAlwaysInplace(h, dfref, cols_list, inplace) ==
    ColToStrOn(h, dfref, cols_list, inplace)

\* col_to_str(df, cols_list, inplace)
ColToStr(h, dfref, cols_list, inplace) ==
    IF inplace THEN ColToStrOn(h, dfref, cols_list, inplace)
    ELSE ColToStrOn(CopyFrame(h, dfref).heap, CopyFrame(h, dfref).ret, cols_list, inplace)

\* the loop skipping the names the table does not have
RECURSIVE FormatLoopSkipMissing(_, _, _, _, _)
FormatLoopSkipMissing(h, df_copy, cols_list, nd, i) ==
    IF i > Len(cols_list) THEN Outcome(h, "", 0)
    ELSE LET column == cols_list[i]
         IN IF column \notin DOMAIN h[df_copy]
            THEN FormatLoopSkipMissing(h, df_copy, cols_list, nd, i + 1)
            ELSE FormatLoopSkipMissing(
                     [h EXCEPT ![df_copy][column] = SeriesApplyFormat(@, nd)],
                     df_copy, cols_list, nd, i + 1)

\* the loop running over every column of the table instead of cols_list
FormatLoopAllColumns(h, df_copy, cols_list, nd, i) ==
    Outcome([h EXCEPT ![df_copy] = [c \in DOMAIN @ |-> SeriesApplyFormat(@[c], nd)]], "", 0)

\* control_decimal_precision lines 33-34: the loop over cols_list on the
\* object df_copy; looking up a missing column raises KeyError
RECURSIVE FormatLoop(_, _, _, _, _)
FormatLoop(h, df_copy, cols_list, nd, i) ==
    IF i > Len(cols_list) THEN Outcome(h, "", 0)
    ELSE LET column == cols_list[i]
         IN IF column \notin DOMAIN h[df_copy] THEN Outcome(h, "KeyError", 0)
            ELSE FormatLoop([h EXCEPT ![df_copy][column] = SeriesApplyFormat(@, nd)],
                            df_copy, cols_list, nd, i + 1)

\* lines 36-38: the outcome of col_to_str decides, then df_copy is returned
AfterCoerce(coerced, df_copy) ==
    IF coerced.raised # "" THEN coerced ELSE Outcome(coerced.heap, "", df_copy)

\* lines 36-38, once the loop of lines 33-34 has ended
AfterLoop(looped, df_copy, cols_list) ==
    IF looped.raised # "" THEN looped
    ELSE AfterCoerce(ColToStr(looped.heap, df_copy, cols_list, TRUE), df_copy)

\* lines 33-38 on the copy made at line 31
AfterCopy(copied, cols_list, nd) ==
    AfterLoop(FormatLoop(copied.heap, copied.ret, cols_list, nd, 1), copied.ret, cols_list)

\* the validation of n placed after the loop
LateCheck(looped, df_copy, cols_list, nd) ==
    IF looped.raised # "" THEN looped
    ELSE IF nd < 0 THEN Outcome(looped.heap, "ValueError", 0)
    ELSE AfterCoerce(ColToStr(looped.heap, df_copy, cols_list, TRUE), df_copy)

AfterCopyLateCheck(copied, cols_list, nd) ==
    LateCheck(FormatLoop(copied.heap, copied.ret, cols_list, nd, 1), copied.ret, cols_list, nd)

\* control_decimal_precision validating n only after the copy and the loop
ControlDecimalPrecisionLateCheck(h, dfref, cols_list, nd) ==
    AfterCopyLateCheck(CopyFrame(h, dfref), cols_list, nd)

\* control_decimal_precision handing back df itself for an empty cols_list
ControlDecimalPrecisionEarlyReturn(h, dfref, cols_list, nd) ==
    IF nd < 0 THEN Outcome(h, "ValueError", 0)
    ELSE IF cols_list = <<>> THEN Outcome(h, "", dfref)
    ELSE AfterCopy(CopyFrame(h, dfref), cols_list, nd)

\* control_decimal_precision(df, cols_list, n)
ControlDecimalPrecision(h, dfref, cols_list, nd) ==
    IF nd < 0 THEN Outcome(h, "ValueError", 0)
    ELSE AfterCopy(CopyFrame(h, dfref), cols_list, nd)

(***************************************************************************)
(* Inputs of the scalar formatter.                                         *)
(***************************************************************************)
Range(f) == {f[i] : i \in DOMAIN f}

\* all texts over an alphabet up to a length
TextsUpTo(alphabet, k) == UNION {[1..m -> alphabet] : m \in 0..k}

StrAlphabet == {"0", "1", "5", ".", "-", "e"}

\* strings the tests and the documentation name, and the special-value texts
NamedStrings ==
    { <<"a", "b", "c">>,
      <<"1", "2", ".", "3", "4", ".", "5", "6">>,
      <<"1", "2", ".", "3", "4", "5">>,
      <<"-", "1", "2", ".", "3", "4", "5">>,
      <<"0", ".", "9", "9", "9">>,
      <<"n", "a", "n">>, <<"N", "a", "N">>, <<"-", "n", "a", "n">>,
      <<"s", "N", "a", "N">>,
      <<"i", "n", "f">>, <<"-", "i", "n", "f">>,
      <<"I", "n", "f", "i", "n", "i", "t", "y">>,
      <<" ", "2", ".", "5", " ">>, <<"1", "_", "2">>,
      <<"1", ".", "0", "E", "-", "7">>,
      <<"1", "2", ".", "0", "0", "0">> }

\* digits of the shortest repr of the finite non-zero floats of the model
FloatDigits ==
    { <<"1">>, <<"5">>, <<"1", "5">>, <<"2", "5">>, <<"4", "5">>,
      <<"1", "0", "4">>, <<"2", "2", "5">>, <<"9", "9", "9">>,
      <<"2", "1", "2", "5">>, <<"1", "2", "3", "4", "5">> }

\* decimal point positions of floats too large for some precisions: 1e16, 1e22
\* and 1e28 (which has more integer digits than the context's precision)
BigDecpts == {17, 23, 29}

\* the float nearest to 0.1 + 0.2, whose repr is 0.30000000000000004
SumFloat ==
    PyFloat(FALSE, <<"3", "0", "0", "0", "0", "0", "0", "0", "0", "0", "0", "0", "0", "0",
                     "0", "0", "4">>, 0)

Floats ==
    {PyFloat(neg, d, p) : neg \in BOOLEAN, d \in FloatDigits,
                          p \in (-MaxNegDecpt..MaxDecpt) \cup BigDecpts}
    \cup {PyFloat(neg, <<"0">>, 1) : neg \in BOOLEAN}
    \cup {SumFloat}

Ints ==
    {PyInt(neg, d) : neg \in BOOLEAN,
                     d \in {<<"5">>, <<"1", "2">>, <<"9", "0">>, <<"1", "0", "0">>}}
    \cup {PyInt(FALSE, <<"0">>)}

NullValues == {PyNone, PdNA, FloatNaN}

InfiniteValues == {FloatInf(FALSE), FloatInf(TRUE)}

Values ==
    NullValues \cup InfiniteValues \cup {PyList, PyDict} \cup Floats \cup Ints
    \cup {PyString(t) : t \in TextsUpTo(StrAlphabet, MaxStrLen) \cup NamedStrings}

(***************************************************************************)
(* Inputs of the column applier.                                           *)
(***************************************************************************)
ColNames == {"a", "b"}

\* a name no table of the model has
AbsentName == "zz"

Text5678 == <<"5", "6", ".", "7", "8">>

\* 12.345, 1e-10, nan, inf
FloatCells == {PyFloat(FALSE, <<"1", "2", "3", "4", "5">>, 2), PyFloat(FALSE, <<"1">>, -9),
               FloatNaN, FloatInf(FALSE)}

IntCells == {PyInt(FALSE, <<"1", "2">>), PyInt(TRUE, <<"5">>)}

ObjectCells == {PyString(Text5678), PyString(<<"a", "b", "c">>), PyNone,
                PyInt(FALSE, <<"9", "0">>)}

StringCells == {PyString(Text5678), PyString(<<"a", "b", "c">>), PdNA}

\* the columns of a given number of rows that column "a" may be
ACols(rows) ==
    {MkColumn("float64", v) : v \in [1..rows -> FloatCells]}
    \cup {MkColumn("int64", v) : v \in [1..rows -> IntCells]}
    \cup {MkColumn("object", v) : v \in [1..rows -> ObjectCells]}
    \cup {MkColumn("string", v) : v \in [1..rows -> StringCells]}

\* the columns of a given number of rows that column "b" may be
BCols(rows) ==
    {MkColumn("int64", [i \in 1..rows |-> PyInt(FALSE, <<"1", "2">>)]),
     MkColumn("string", [i \in 1..rows |-> PyString(Text5678)])}

TablesOf(rows) ==
    {[c \in ColNames |-> IF c = "a" THEN ca ELSE cb] : ca \in ACols(rows), cb \in BCols(rows)}
    \cup {[c \in {"a"} |-> ca] : ca \in ACols(rows)}
    \cup {[c \in {"b"} |-> cb] : cb \in BCols(rows)}
    \cup {<<>>}

Tables == UNION {TablesOf(rows) : rows \in 0..MaxRows}

ColumnLists == TextsUpTo(ColNames \cup {AbsentName}, MaxListLen)

ApplyPrecisions == {-1, 0, 2, MaxN}

(***************************************************************************)
(* State.                                                                  *)
(*   value, n, fmt   one call _format_decimal(value, n) and what it did    *)
(*                   (NotCalled before the call)                           *)
(*   heap            the DataFrame objects created so far                  *)
(*   df              the caller's table, a reference into heap             *)
(*   args            the arguments of control_decimal_precision(df, ...)   *)
(*   outcome         how that call ended (NoOutcome before the call)       *)
(*   calls           the calls a caller made one after the other on the    *)
(*                   tables of heap, each with its arguments and its end   *)
(*   cal             the construction CalendarCal(...): its arguments, the *)
(*                   exception it raised and the object it produced        *)
(*   read            the last property read on that object and its result  *)
(*   logsys          the logging state of the interpreter: the handlers of *)
(*                   the module logger, sys.excepthook, the directories    *)
(*                   and log files made, and what the last operation wrote *)
(***************************************************************************)
VARIABLES value, n, fmt, heap, df, args, outcome, calls, cal, read, logsys

fmtVars == <<value, n, fmt>>

tblVars == <<heap, df, args, outcome, calls>>

calVars == <<cal, read>>

vars == <<value, n, fmt, heap, df, args, outcome, calls, cal, read, logsys>>

NotCalled == [ret |-> <<>>, raised |-> "", steps |-> <<>>]

NoArgs == [cols_list |-> <<>>, n |-> 0]

NoOutcome == [called |-> FALSE, raised |-> "", ret |-> 0]

\* no CalendarCal object
NoCalObject == [yr_mth |-> <<>>, yr |-> 0, mth |-> 0, days_in_month |-> 0, dt_fmt |-> <<>>,
                time_dim |-> ""]

\* before the construction
NoCal == [called |-> FALSE, yr_mth |-> <<>>, dt_fmt |-> <<>>, time_dim |-> "", raised |-> "",
          failed |-> "", obj |-> NoCalObject]

NoRead == [prop |-> "", raised |-> "", val |-> <<>>]

\* no CalendarCal was asked for
CalendarIdle == cal = NoCal /\ read = NoRead

\* logger_utils as imported (lines 9-10): a logger without handlers, the
\* interpreter's own excepthook, nothing written
NothingWritten == [op |-> "", arg |-> "", record |-> FALSE, console |-> 0, file |-> 0]

LoggerAtImport ==
    [handlers |-> <<>>, excepthook |-> "sys.__excepthook__", dirs |-> {}, files |-> {},
     last |-> NothingWritten]

LoggerIdle == logsys = LoggerAtImport

\* the scalar formatter is idle
FormatIdle == value = PyNone /\ n = 0 /\ fmt = NotCalled

\* no table exists
ApplyIdle == heap = <<>> /\ df = 0 /\ args = NoArgs /\ outcome = NoOutcome /\ calls = <<>>

InitFormat ==
    /\ value \in Values
    /\ n \in 0..MaxN
    /\ fmt = NotCalled
    /\ ApplyIdle
    /\ CalendarIdle
    /\ LoggerIdle

\* the call _format_decimal(value, n)
Format ==
    /\ fmt = NotCalled
    /\ fmt' = FormatDecimal(value, n)
    /\ UNCHANGED <<value, n>>
    /\ UNCHANGED tblVars
    /\ UNCHANGED <<calVars, logsys>>

NextFormat == Format

SpecFormat == InitFormat /\ [][NextFormat]_vars

Called == fmt # NotCalled

InitApply ==
    /\ FormatIdle
    /\ heap \in {<<t>> : t \in Tables}
    /\ df = 1
    /\ args = NoArgs
    /\ outcome = NoOutcome
    /\ calls = <<>>
    /\ CalendarIdle
    /\ LoggerIdle

\* the heap and the outcome a finished call leaves
Finish(done) ==
    /\ heap' = done.heap
    /\ outcome' = [called |-> TRUE, raised |-> done.raised, ret |-> done.ret]

\* the call control_decimal_precision(df, cols_list, nd) on the caller's table
Apply(cols_list, nd) ==
    /\ ~outcome.called
    /\ Finish(ControlDecimalPrecision(heap, df, cols_list, nd))
    /\ args' = [cols_list |-> cols_list, n |-> nd]
    /\ UNCHANGED <<df, calls>>
    /\ UNCHANGED fmtVars
    /\ UNCHANGED <<calVars, logsys>>

NextApply == \E cols_list \in ColumnLists, nd \in ApplyPrecisions : Apply(cols_list, nd)

SpecApply == InitApply /\ [][NextApply]_vars

(***************************************************************************)
(* A caller chaining calls of control_decimal_precision: each call is made *)
(* on the table the call before returned, the first on the caller's table  *)
(* (revenue_result = f(financial_df, ...); f(revenue_result, ...)).        *)
(***************************************************************************)
\* calls in a chain
MaxCalls == 2

\* the tables of no row and of one row
ChainTables == TablesOf(0) \cup TablesOf(1)

ChainLists == {<<>>, <<"a">>, <<"b">>, <<"a", "b">>, <<"a", "a">>}

ChainPrecisions == {0, 2, MaxN}

\* one call as the caller saw it
CallRecord(op, dfref, cols_list, nd, inplace, done) ==
    [op |-> op, df |-> dfref, cols_list |-> cols_list, n |-> nd, inplace |-> inplace,
     raised |-> done.raised, ret |-> done.ret]

InitChain ==
    /\ FormatIdle
    /\ heap \in {<<t>> : t \in ChainTables}
    /\ df = 1
    /\ args = NoArgs
    /\ outcome = NoOutcome
    /\ calls = <<>>
    /\ CalendarIdle
    /\ LoggerIdle

\* the table the next call of the chain is made on
ChainTarget == IF calls = <<>> THEN df ELSE calls[Len(calls)].ret

\* the heap and the record a finished call of the chain leaves
ChainFinish(done, dfref, cols_list, nd) ==
    /\ heap' = done.heap
    /\ calls' = Append(calls, CallRecord("control_decimal_precision", dfref, cols_list, nd,
                                         FALSE, done))

\* the next call control_decimal_precision(<last result>, cols_list, nd)
ChainApply(cols_list, nd) ==
    /\ Len(calls) < MaxCalls
    /\ calls # <<>> => calls[Len(calls)].raised = ""
    /\ ChainFinish(ControlDecimalPrecision(heap, ChainTarget, cols_list, nd),
                   ChainTarget, cols_list, nd)
    /\ UNCHANGED <<df, args, outcome>>
    /\ UNCHANGED fmtVars
    /\ UNCHANGED <<calVars, logsys>>

NextChain == \E cols_list \in ChainLists, nd \in ChainPrecisions : ChainApply(cols_list, nd)

SpecChain == InitChain /\ [][NextChain]_vars

(***************************************************************************)
(* One call col_to_str(df, cols_list, inplace) on the caller's table.      *)
(***************************************************************************)
InitCoerce ==
    /\ FormatIdle
    /\ heap \in {<<t>> : t \in Tables}
    /\ df = 1
    /\ args = NoArgs
    /\ outcome = NoOutcome
    /\ calls = <<>>
    /\ CalendarIdle
    /\ LoggerIdle

\* the heap and the record a finished col_to_str leaves
CoerceFinish(done, cols_list, inplace) ==
    /\ heap' = done.heap
    /\ calls' = <<CallRecord("col_to_str", df, cols_list, 0, inplace, done)>>

\* the call col_to_str(df, cols_list, inplace)
Coerce(cols_list, inplace) ==
    /\ calls = <<>>
    /\ CoerceFinish(ColToStr(heap, df, cols_list, inplace), cols_list, inplace)
    /\ UNCHANGED <<df, args, outcome>>
    /\ UNCHANGED fmtVars
    /\ UNCHANGED <<calVars, logsys>>

NextCoerce == \E cols_list \in ColumnLists, inplace \in BOOLEAN : Coerce(cols_list, inplace)

SpecCoerce == InitCoerce /\ [][NextCoerce]_vars

(***************************************************************************)
(* Calendar dates, as pandas computes with them.  A date is [y, m, d].     *)
(***************************************************************************)
\* the years CalendarCal accepts (line 22)
MinYear == 2000

MaxYear == 2050

MkDate(y, m, d) == [y |-> y, m |-> m, d |-> d]

\* what a failed parse leaves (the ValueError pandas raises)
BadDate == MkDate(0, 0, 0)

IsLeapYear(y) == y % 4 = 0 /\ (y % 100 # 0 \/ y % 400 = 0)

\* pd.Period("y-m").days_in_month
DaysInMonth(y, m) ==
    CASE m = 2 -> IF IsLeapYear(y) THEN 29 ELSE 28
      [] m \in {4, 6, 9, 11} -> 30
      [] OTHER -> 31

\* days from 0001-01-01 up to the year y
DaysBeforeYear(y) == 365 * (y - 1) + ((y - 1) \div 4) - ((y - 1) \div 100) + ((y - 1) \div 400)

\* days of the year y before its month m
RECURSIVE DaysBeforeMonth(_, _)
DaysBeforeMonth(y, m) ==
    IF m <= 1 THEN 0 ELSE DaysBeforeMonth(y, m - 1) + DaysInMonth(y, m - 1)

\* the day number of a date (0001-01-01, a Monday, is 1)
ToOrdinal(date) == DaysBeforeYear(date.y) + DaysBeforeMonth(date.y, date.m) + date.d

\* Timestamp.weekday(): 0 is Monday, 6 is Sunday
Weekday(date) == (ToOrdinal(date) - 1) % 7

\* timestamp + pd.DateOffset(days=1)
NextDay(date) ==
    IF date.d < DaysInMonth(date.y, date.m) THEN MkDate(date.y, date.m, date.d + 1)
    ELSE IF date.m < 12 THEN MkDate(date.y, date.m + 1, 1)
    ELSE MkDate(date.y + 1, 1, 1)

\* timestamp - pd.DateOffset(days=1)
PrevDay(date) ==
    IF date.d > 1 THEN MkDate(date.y, date.m, date.d - 1)
    ELSE IF date.m > 1 THEN MkDate(date.y, date.m - 1, DaysInMonth(date.y, date.m - 1))
    ELSE MkDate(date.y - 1, 12, 31)

\* timestamp + pd.DateOffset(days=k)
RECURSIVE AddDays(_, _)
AddDays(date, k) ==
    IF k = 0 THEN date
    ELSE IF k > 0 THEN AddDays(NextDay(date), k - 1)
    ELSE AddDays(PrevDay(date), k + 1)

Min(a, b) == IF a <= b THEN a ELSE b

\* timestamp + pd.DateOffset(months=1): the same day of the next month, cut
\* to that month's length
AddOneMonth(date) ==
    IF date.m = 12 THEN MkDate(date.y + 1, 1, date.d)
    ELSE MkDate(date.y, date.m + 1, Min(date.d, DaysInMonth(date.y, date.m + 1)))

\* timestamp <= timestamp
DateLeq(a, b) ==
    \/ a.y < b.y
    \/ a.y = b.y /\ a.m < b.m
    \/ a.y = b.y /\ a.m = b.m /\ a.d <= b.d

\* the days of one month from the date first through the day number last
DaysThrough(first, last) ==
    [i \in 1..(last - first.d + 1) |-> MkDate(first.y, first.m, first.d + i - 1)]

\* the first day of the month after the date's
NextMonthFirst(date) ==
    IF date.m < 12 THEN MkDate(date.y, date.m + 1, 1) ELSE MkDate(date.y + 1, 1, 1)

\* pd.date_range(start, end, freq="D"): every day from start through end,
\* month after month
RECURSIVE DateRangeDaily(_, _)
DateRangeDaily(start, end) ==
    IF ~DateLeq(start, end) THEN <<>>
    ELSE IF start.y = end.y /\ start.m = end.m THEN DaysThrough(start, end.d)
    ELSE DaysThrough(start, DaysInMonth(start.y, start.m))
             \o DateRangeDaily(NextMonthFirst(start), end)

\* a Sunday and every seventh day after it, through end
RECURSIVE SundaysFrom(_, _)
SundaysFrom(sunday, end) ==
    IF ~DateLeq(sunday, end) THEN <<>>
    ELSE <<sunday>> \o SundaysFrom(AddDays(sunday, 7), end)

\* pd.date_range(start, end, freq="W-SUN"): the Sundays from start through
\* end, the first being start itself or the next Sunday after it
DateRangeSundays(start, end) == SundaysFrom(AddDays(start, 6 - Weekday(start)), end)

\* "%02d" % k
Pad2(k) == IF k < 10 THEN <<"0">> \o NatText(k) ELSE NatText(k)

\* one strftime directive
Directive(date, c) ==
    CASE c = "Y" -> NatText(date.y)
      [] c = "m" -> Pad2(date.m)
      [] c = "d" -> Pad2(date.d)
      [] OTHER -> <<"%", c>>

\* timestamp.strftime(fmt), from the position i of fmt on
RECURSIVE StrftimeFrom(_, _, _)
StrftimeFrom(date, dt_fmt, i) ==
    IF i > Len(dt_fmt) THEN <<>>
    ELSE IF dt_fmt[i] = "%" /\ i < Len(dt_fmt)
    THEN Directive(date, dt_fmt[i + 1]) \o StrftimeFrom(date, dt_fmt, i + 2)
    ELSE <<dt_fmt[i]>> \o StrftimeFrom(date, dt_fmt, i + 1)

Strftime(date, dt_fmt) == StrftimeFrom(date, dt_fmt, 1)

\* DatetimeIndex.strftime(fmt).tolist()
StrftimeAll(dates, dt_fmt) == [i \in 1..Len(dates) |-> Strftime(dates[i], dt_fmt)]

\* the digits text[i..j] as a number, -1 when they are not all digits
Field(text, i, j) ==
    IF j <= Len(text) /\ AllDigits(SubSeq(text, i, j)) THEN TextNat(SubSeq(text, i, j)) ELSE -1

\* a date whose fields were read from a text
CheckedDate(y, m, d) ==
    IF y >= 1 /\ m \in 1..12 /\ d >= 1 /\ d <= DaysInMonth(y, m) THEN MkDate(y, m, d)
    ELSE BadDate

\* one step of strptime: the directive c read at the position j of text
\* into the date acc; the answer is the date and the next position
StrptimeField(text, c, j, acc) ==
    CASE c = "Y" -> [date |-> [acc EXCEPT !.y = Field(text, j, j + 3)], next |-> j + 4]
      [] c = "m" -> [date |-> [acc EXCEPT !.m = Field(text, j, j + 1)], next |-> j + 2]
      [] c = "d" -> [date |-> [acc EXCEPT !.d = Field(text, j, j + 1)], next |-> j + 2]
      [] OTHER -> [date |-> BadDate, next |-> j]

\* strptime(text, fmt) from the position i of fmt and j of text on; fields
\* the format does not name keep the defaults of acc
RECURSIVE StrptimeFrom(_, _, _, _, _)
StrptimeFrom(text, dt_fmt, i, j, acc) ==
    IF i > Len(dt_fmt)
    THEN IF j = Len(text) + 1 THEN CheckedDate(acc.y, acc.m, acc.d) ELSE BadDate
    ELSE IF dt_fmt[i] = "%" /\ i < Len(dt_fmt)
    THEN StrptimeFrom(text, dt_fmt, i + 2, StrptimeField(text, dt_fmt[i + 1], j, acc).next,
                      StrptimeField(text, dt_fmt[i + 1], j, acc).date)
    ELSE IF j <= Len(text) /\ text[j] = dt_fmt[i]
    THEN StrptimeFrom(text, dt_fmt, i + 1, j + 1, acc)
    ELSE BadDate

\* pd.to_datetime(text, format=fmt)
ParseWithFormat(text, dt_fmt) == StrptimeFrom(text, dt_fmt, 1, 1, MkDate(1900, 1, 1))

\* a text aa/bb/yyyy read without a format: month first, unless aa cannot be
\* a month, in which case the day is taken to come first
ParseDelimited(a, b, y) ==
    IF a \in 1..12 THEN CheckedDate(y, a, b) ELSE CheckedDate(y, b, a)

\* pd.Timestamp(text), as pd.date_range reads a start or an end given as a
\* string, no format at hand: yyyy-mm-dd (the day in one or two digits),
\* yyyymmdd, or aa/bb/yyyy
ParseDateString(text) ==
    CASE Len(text) \in {9, 10} /\ text[5] = "-" /\ text[8] = "-"
           -> CheckedDate(Field(text, 1, 4), Field(text, 6, 7), Field(text, 9, Len(text)))
      [] Len(text) = 8 /\ AllDigits(text)
           -> CheckedDate(Field(text, 1, 4), Field(text, 5, 6), Field(text, 7, 8))
      [] Len(text) = 10 /\ text[3] = "/" /\ text[6] = "/"
           -> ParseDelimited(Field(text, 1, 2), Field(text, 4, 5), Field(text, 7, 10))
      [] OTHER -> BadDate

\* f"{yr}-{mth:02d}-{day}"
IsoText(yr, mth, day) == NatText(yr) \o <<"-">> \o Pad2(mth) \o <<"-">> \o day

(***************************************************************************)
(* CalendarCal (time_utils.py).  An object is                              *)
(* [yr_mth, yr, mth, days_in_month, dt_fmt, time_dim]; a property read     *)
(* answers [raised, val].                                                  *)
(***************************************************************************)
\* characters other than 0..9 for which str.isdigit() holds
SuperscriptDigits == {"sup1", "sup2"}

\* str.isdigit(): not empty, every character a digit in the Unicode sense
StrIsDigit(text) == text # <<>> /\ \A i \in 1..Len(text) : IsDigit(text[i]) \/ text[i] \in SuperscriptDigits

\* int(text) succeeds on decimal digits only
IntParses(text) == text # <<>> /\ AllDigits(text)

CalFailed(exc, what, yr_mth, dt_fmt, time_dim) ==
    [called |-> TRUE, yr_mth |-> yr_mth, dt_fmt |-> dt_fmt, time_dim |-> time_dim,
     raised |-> exc, failed |-> what, obj |-> NoCalObject]

\* lines 26-29, the year and the month accepted
CalBuilt(yr_mth, yr, mth, dt_fmt, time_dim) ==
    [called |-> TRUE, yr_mth |-> yr_mth, dt_fmt |-> dt_fmt, time_dim |-> time_dim,
     raised |-> "", failed |-> "",
     obj |-> [yr_mth |-> yr_mth, yr |-> yr, mth |-> mth,
              days_in_month |-> DaysInMonth(yr, mth), dt_fmt |-> dt_fmt,
              time_dim |-> time_dim]]

\* lines 23-29, the year accepted
CalWithYear(yr_mth, yr, dt_fmt, time_dim) ==
    IF ~IntParses(SubSeq(yr_mth, 5, 6))
    THEN CalFailed("ValueError", "int", yr_mth, dt_fmt, time_dim)
    ELSE IF ~(1 <= TextNat(SubSeq(yr_mth, 5, 6)) /\ TextNat(SubSeq(yr_mth, 5, 6)) <= 12)
    THEN CalFailed("AssertionError", "Month", yr_mth, dt_fmt, time_dim)
    ELSE CalBuilt(yr_mth, yr, TextNat(SubSeq(yr_mth, 5, 6)), dt_fmt, time_dim)

\* lines 21-29, the format accepted
CalWithFormat(yr_mth, dt_fmt, time_dim) ==
    IF ~IntParses(SubSeq(yr_mth, 1, 4))
    THEN CalFailed("ValueError", "int", yr_mth, dt_fmt, time_dim)
    ELSE IF ~(MinYear <= TextNat(SubSeq(yr_mth, 1, 4)) /\ TextNat(SubSeq(yr_mth, 1, 4)) <= MaxYear)
    THEN CalFailed("AssertionError", "Year", yr_mth, dt_fmt, time_dim)
    ELSE CalWithYear(yr_mth, TextNat(SubSeq(yr_mth, 1, 4)), dt_fmt, time_dim)

\* CalendarCal(yr_mth, dt_fmt, time_dim)
CalendarCal(yr_mth, dt_fmt, time_dim) ==
    IF ~(Len(yr_mth) = 6 /\ StrIsDigit(yr_mth))
    THEN CalFailed("AssertionError", "Invalid year-month format", yr_mth, dt_fmt, time_dim)
    ELSE CalWithFormat(yr_mth, dt_fmt, time_dim)

Answer(val) == [raised |-> "", val |-> val]

Raises(exc) == [raised |-> exc, val |-> <<>>]

\* the timestamp of f"{self.yr}-{self.mth:02d}-01"
MonthStart(self) == ParseDateString(IsoText(self.yr, self.mth, <<"0", "1">>))

\* the timestamp of f"{self.yr}-{self.mth:02d}-{self.days_in_month}"
MonthEnd(self) == ParseDateString(IsoText(self.yr, self.mth, NatText(self.days_in_month)))

\* wks_lst taking the Sundays up to the day before the month's last day
WksLstShort(self) ==
    Answer(StrftimeAll(DateRangeSundays(MonthStart(self), AddDays(MonthEnd(self), -1)),
                       self.dt_fmt))

\* the property wks_lst (lines 31-38)
WksLst(self) ==
    Answer(StrftimeAll(DateRangeSundays(MonthStart(self), MonthEnd(self)), self.dt_fmt))

\* lines 49-50: the days from first_monday_str through wks_lst[-1], both
\* read back from their text
WeeklyRange(first, last, dt_fmt) ==
    IF first = BadDate \/ last = BadDate THEN Raises("ValueError")
    ELSE Answer(StrftimeAll(DateRangeDaily(first, last), dt_fmt))

\* lines 46-50: first_monday is the parsed wks_lst[0] less six days
WeeklyFrom(first_sunday, wks, dt_fmt) ==
    IF first_sunday = BadDate THEN Raises("ValueError")
    ELSE WeeklyRange(ParseDateString(Strftime(AddDays(first_sunday, -6), dt_fmt)),
                     ParseDateString(wks[Len(wks)]), dt_fmt)

\* lines 44-50, given self.wks_lst
DatesWeekly(wks, dt_fmt) ==
    IF wks = <<>> THEN Raises("IndexError")
    ELSE WeeklyFrom(ParseWithFormat(wks[1], dt_fmt), wks, dt_fmt)

\* the monthly list ending at the 28th, the last day every month has
DatesMonthlyTo28(self) ==
    Answer(StrftimeAll(DateRangeDaily(MonthStart(self), AddDays(MonthStart(self), 27)),
                       self.dt_fmt))

\* lines 52-55
DatesMonthly(self) ==
    Answer(StrftimeAll(DateRangeDaily(MonthStart(self), MonthEnd(self)), self.dt_fmt))

\* dates_lst taking every time_dim other than "weekly" as monthly
DatesLstLenient(self) ==
    IF self.time_dim = "weekly" THEN DatesWeekly(WksLst(self).val, self.dt_fmt)
    ELSE DatesMonthly(self)

\* the property dates_lst (lines 40-60)
DatesLst(self) ==
    IF self.time_dim = "weekly" THEN DatesWeekly(WksLst(self).val, self.dt_fmt)
    ELSE IF self.time_dim \in {"half_month", "monthly"} THEN DatesMonthly(self)
    ELSE Raises("ValueError")

\* next_month_start_date keeping the year when December rolls over
NextMonthStartDateSameYear(self) ==
    Answer(Strftime(MkDate(self.yr, (self.mth % 12) + 1, 1), self.dt_fmt))

\* the property next_month_start_date (lines 62-65)
NextMonthStartDate(self) == Answer(Strftime(AddOneMonth(MonthStart(self)), self.dt_fmt))

\* the property current_month_last_date (lines 67-70)
CurrentMonthLastDate(self) == Answer(Strftime(MonthEnd(self), self.dt_fmt))

\* pd.Period(text, freq="M") for a text of six digits: year and month
PeriodOf(text) == [y |-> Field(text, 1, 4), m |-> Field(text, 5, 6)]

\* period - 1
PeriodBefore(p) == IF p.m = 1 THEN [y |-> p.y - 1, m |-> 12] ELSE [y |-> p.y, m |-> p.m - 1]

\* period.strftime("%Y%m")
PeriodText(p) == NatText(p.y) \o Pad2(p.m)

\* last_month formatted with dt_fmt instead of the fixed "%Y%m"
LastMonthWithDtFmt(self) ==
    Answer(Strftime(MkDate(PeriodBefore(PeriodOf(self.yr_mth)).y,
                           PeriodBefore(PeriodOf(self.yr_mth)).m, 1), self.dt_fmt))

\* the property last_month (lines 72-75)
LastMonth(self) == Answer(PeriodText(PeriodBefore(PeriodOf(self.yr_mth))))

(***************************************************************************)
(* One CalendarCal is constructed and its properties are read.             *)
(***************************************************************************)
\* the texts yyyymm for the years around the accepted ones and the month
\* numbers 00..13
YearMonthTexts ==
    {NatText(y) \o Pad2(m) : y \in (MinYear - 1)..(MaxYear + 1), m \in 0..13}

\* arguments of another shape: wrong length, a character that is no digit,
\* digits that are not decimal digits
OddYearMonths ==
    { <<>>, <<"2", "0", "2", "5">>, <<"2", "0", "2", "3", "1">>,
      <<"2", "0", "2", "3", "1", "2", "3">>, <<"2", "0", "2", "5", "-", "1">>,
      <<"2", "0", "2", "5", "a", "b">>, <<" ", "2", "0", "2", "5", "1">>,
      <<"2", "0", "2", "5", "sup1", "sup2">>, <<"sup2", "0", "2", "5", "1", "2">> }

\* "%Y%m%d" (the default), "%Y-%m-%d", "%d/%m/%Y"
DateFormats ==
    { <<"%", "Y", "%", "m", "%", "d">>,
      <<"%", "Y", "-", "%", "m", "-", "%", "d">>,
      <<"%", "d", "/", "%", "m", "/", "%", "Y">> }

TimeDims == {"weekly", "half_month", "monthly", "daily"}

InitCalendar ==
    /\ FormatIdle
    /\ ApplyIdle
    /\ CalendarIdle
    /\ LoggerIdle

\* cal = CalendarCal(yr_mth, dt_fmt, time_dim)
Construct(yr_mth, dt_fmt, time_dim) ==
    /\ ~cal.called
    /\ cal' = CalendarCal(yr_mth, dt_fmt, time_dim)
    /\ UNCHANGED read
    /\ UNCHANGED <<fmtVars, tblVars, logsys>>

\* a property of the constructed object is read
ReadProperty(prop, answer) ==
    /\ cal.called
    /\ cal.raised = ""
    /\ read' = [prop |-> prop, raised |-> answer.raised, val |-> answer.val]
    /\ UNCHANGED cal
    /\ UNCHANGED <<fmtVars, tblVars, logsys>>

ReadWksLst == ReadProperty("wks_lst", WksLst(cal.obj))

ReadDatesLst == ReadProperty("dates_lst", DatesLst(cal.obj))

ReadNextMonthStartDate == ReadProperty("next_month_start_date", NextMonthStartDate(cal.obj))

ReadCurrentMonthLastDate ==
    ReadProperty("current_month_last_date", CurrentMonthLastDate(cal.obj))

ReadLastMonth == ReadProperty("last_month", LastMonth(cal.obj))

NextCalendar ==
    \/ /\ ~cal.called
       /\ \E yr_mth \in YearMonthTexts \cup OddYearMonths, dt_fmt \in DateFormats,
             time_dim \in TimeDims : Construct(yr_mth, dt_fmt, time_dim)
    \/ ReadWksLst
    \/ ReadDatesLst
    \/ ReadNextMonthStartDate
    \/ ReadCurrentMonthLastDate
    \/ ReadLastMonth

SpecCalendar == InitCalendar /\ [][NextCalendar]_vars

(***************************************************************************)
(* Numbers denoted by texts and values, for stating the properties.        *)
(* A number is [neg, digits, exp]: (-1)^neg * digits * 10^exp, the digits  *)
(* without leading or trailing zero; zero is [FALSE, <<>>, 0].             *)
(***************************************************************************)
Norm(neg, ds, e) ==
    LET t == RStrip(ds, "0")
        u == LStrip(t, "0")
    IN IF u = <<>> THEN [neg |-> FALSE, digits |-> <<>>, exp |-> 0]
       ELSE [neg |-> neg, digits |-> u, exp |-> e + (Len(ds) - Len(t))]

NotANumber == [neg |-> FALSE, digits |-> <<"?">>, exp |-> 0]

\* the number written by a numeral  -?d+(.d+)?([eE][-+]?d+)?
ReadNumeral(text) ==
    LET neg == text # <<>> /\ text[1] = "-"
        b == IF neg THEN Tail(text) ELSE text
        L == Len(b)
        i1 == SpanDigits(b, 1)
        hasDot == i1 <= L /\ b[i1] = "."
        i2 == IF hasDot THEN SpanDigits(b, i1 + 1) ELSE i1
        frac == IF hasDot THEN SubSeq(b, i1 + 1, i2 - 1) ELSE <<>>
        hasExp == i2 <= L /\ b[i2] \in {"e", "E"}
        signed == hasExp /\ i2 + 1 <= L /\ b[i2 + 1] \in {"-", "+"}
        ed == SubSeq(b, IF signed THEN i2 + 2 ELSE i2 + 1, L)
        ev == IF ~hasExp THEN 0
              ELSE IF b[i2 + 1] = "-" THEN -TextNat(ed) ELSE TextNat(ed)
        ok == /\ i1 > 1
              /\ hasDot => frac # <<>>
              /\ IF hasExp THEN ed # <<>> /\ AllDigits(ed) ELSE i2 = L + 1
    IN IF ok THEN Norm(neg, SubSeq(b, 1, i1 - 1) \o frac, ev - Len(frac))
       ELSE NotANumber

\* the number a finite int, float or numeral string stands for
NumberOf(v) ==
    CASE v.kind = "int" -> Norm(v.neg, v.digits, 0)
      [] v.kind = "float" -> Norm(v.neg, v.digits, v.decpt - Len(v.digits))
      [] v.kind = "str" -> ReadNumeral(v.text)
      [] OTHER -> NotANumber

IsFiniteNumeric(v) == NumberOf(v) # NotANumber

RECURSIVE Pow10(_)
Pow10(k) == IF k <= 0 THEN 1 ELSE 10 * Pow10(k - 1)

\* x rounded to n fractional digits, ties away from zero, by arithmetic on
\* the magnitude: floor((c + 10^k / 2) / 10^k) where k digits are dropped.
\* A magnitude of more than 8 digits does not fit the integers at hand and
\* is rounded on its digits: the kept digits, plus one when the first
\* dropped digit is 5 or more.
RoundedHalfUp(x, nd) ==
    LET k == -nd - x.exp
        L == Len(x.digits)
        c == TextNat(x.digits)
        kept == SubSeq(x.digits, 1, L - k)
    IN IF k <= 0 THEN x
       ELSE IF k > L THEN Norm(x.neg, <<>>, 0)
       ELSE IF L <= 8
       THEN Norm(x.neg, NatText((c + 5 * Pow10(k - 1)) \div Pow10(k)), -nd)
       ELSE Norm(x.neg, IF DigitVal(x.digits[L - k + 1]) >= 5 THEN Incr(kept) ELSE kept, -nd)

\* the digits that directly follow the first point of a text
FracDigits(text) ==
    LET i == CHOOSE j \in 1..Len(text) : text[j] = "." /\ \A m \in 1..(j - 1) : text[m] # "."
    IN IF Contains(text, ".") THEN SubSeq(text, i + 1, SpanDigits(text, i + 1) - 1)
       ELSE <<>>

\* the text matches  -?d+.d+
IsFormattedDecimal(text) ==
    LET b == IF text # <<>> /\ text[1] = "-" THEN Tail(text) ELSE text
        i1 == SpanDigits(b, 1)
    IN /\ i1 > 1
       /\ i1 <= Len(b) /\ b[i1] = "."
       /\ i1 < Len(b)
       /\ SpanDigits(b, i1 + 1) = Len(b) + 1

(***************************************************************************)
(* Properties of _format_decimal, under SpecFormat.                        *)
(***************************************************************************)
\* C2: _format_decimal is total: for every input value and every n >= 0 the
\* call returns a string and no exception leaves it; every failure inside
\* (an exception reaching the except clause) yields the empty string.
C2_TotalFunction ==
    Called => /\ fmt.raised = ""
              /\ "except" \in Range(fmt.steps) => fmt.ret = <<>>

\* a call in which parsing or quantizing failed and the failure was absorbed
C2_Witness ==
    /\ Called
    /\ value.kind \in {"str", "list", "dict"}
    /\ "except" \in Range(fmt.steps)
    /\ fmt.ret = <<>>

\* C3 (as claimed): for every finite numeric-like value and every n >= 0, a
\* non-empty result denotes the value rounded to n fractional digits with
\* round-half-up (ties away from zero).
C3_RoundingCorrect ==
    (Called /\ IsFiniteNumeric(value) /\ fmt.ret # <<>>)
        => ReadNumeral(fmt.ret) = RoundedHalfUp(NumberOf(value), n)

\* C4 (as claimed): for every input and every n >= 0 the result is the
\* empty string or matches -?d+.d+ ; no bare integer, exponent notation or
\* NaN text is produced.
C4_OutputFormat ==
    Called => fmt.ret = <<>> \/ IsFormattedDecimal(fmt.ret)

\* C5: for None, pd.NA, NaN, +infinity and -infinity and every n >= 0 the
\* result is the empty string, returned by the null test or the infinity
\* test before Decimal() is reached (no parse, no quantize, no except).
C5_NullInfinityTotality ==
    (Called /\ value \in NullValues \cup InfiniteValues)
        => /\ fmt.ret = <<>>
           /\ fmt.raised = ""
           /\ fmt.steps \in {<<"isna">>, <<"isna", "isinf">>}
           /\ value \in NullValues => fmt.steps = <<"isna">>

\* the formatter was called on a NaN and on an infinity
C5_Witness ==
    /\ Called
    /\ value \in {FloatNaN, FloatInf(TRUE)}
    /\ fmt.ret = <<>>

\* C6 (as claimed): for n >= 1 a non-empty result never ends in ".", has at
\* most n fractional digits, and its fractional part has no trailing zero
\* unless it is the single digit "0".
C6_TrailingZeros ==
    (Called /\ n >= 1 /\ fmt.ret # <<>>)
        => /\ ~EndsWith(fmt.ret, ".")
           /\ Len(FracDigits(fmt.ret)) <= n
           /\ EndsWith(FracDigits(fmt.ret), "0") => FracDigits(fmt.ret) = <<"0">>

\* C11 (as claimed): idempotence on strings: for every string s matching
\* -?d+.d+ and every n no smaller than the number of fractional digits of s,
\* _format_decimal(s, n) returns s itself.
C11_StringIdempotence ==
    (/\ Called
     /\ value.kind = "str"
     /\ IsFormattedDecimal(value.text)
     /\ n >= Len(FracDigits(value.text)))
        => fmt.ret = value.text

Max(a, b) == IF a >= b THEN a ELSE b

\* the number of fractional digits in the decimal text of a finite value:
\* those its number needs, and no fewer than its own text shows
FullTextFracLen(v) == Max(-NumberOf(v).exp, Len(FracDigits(PyStr(v))))

\* C12 (as claimed): no upper bound on precision: for every finite value and
\* every n at least the number of fractional digits in the value's decimal
\* text, the result is not the empty string, denotes the value itself and
\* carries no padding zeros.
C12_NoUpperBound ==
    (Called /\ IsFiniteNumeric(value) /\ n >= FullTextFracLen(value))
        => /\ fmt.ret # <<>>
           /\ ReadNumeral(fmt.ret) = NumberOf(value)
           /\ EndsWith(FracDigits(fmt.ret), "0") => FracDigits(fmt.ret) = <<"0">>

\* the text, blanks around it and underscores apart, is a finite decimal
\* numeral:  [sign] (d+ [. d*] | . d+) [(e|E) [sign] d+]
IsFiniteDecimalText(text) ==
    LET t == Remove(StripBlanks(text), "_")
        b == IF t # <<>> /\ t[1] \in {"-", "+"} THEN Tail(t) ELSE t
        L == Len(b)
        i1 == SpanDigits(b, 1)
        hasDot == i1 <= L /\ b[i1] = "."
        i2 == IF hasDot THEN SpanDigits(b, i1 + 1) ELSE i1
        ed == IF i2 + 1 <= L /\ b[i2 + 1] \in {"-", "+"} THEN SubSeq(b, i2 + 2, L)
              ELSE SubSeq(b, i2 + 1, L)
    IN /\ i1 > 1 \/ (hasDot /\ i2 > i1 + 1)
       /\ \/ i2 = L + 1
          \/ b[i2] \in {"e", "E"} /\ ed # <<>> /\ AllDigits(ed)

C14_FloatThroughText ==
    (Called /\ value.kind \in {"int", "float"})
        => /\ fmt.ret = FormatDecimal(PyString(PyStr(value)), n).ret
           /\ (value = SumFloat /\ n = 2) => fmt.ret = <<"0", ".", "3">>

\* the float nearest to 0.1 + 0.2 was formatted at n = 2
C14_Witness ==
    /\ Called
    /\ value = SumFloat
    /\ n = 2
    /\ PyStr(value) # <<"0", ".", "3">>
    /\ fmt.ret = <<"0", ".", "3">>

\* the sign a value is written with
ValueNeg(v) == IF v.kind = "str" THEN v.text # <<>> /\ v.text[1] = "-" ELSE v.neg

\* C18 (as claimed): for n >= 1, a finite value that is zero or rounds to
\* zero at n places gives "-0.0" when it is written with a minus sign
\* (-0.0 included) and "0.0" otherwise.
C18_ZeroKeepsSign ==
    (/\ Called
     /\ n >= 1
     /\ IsFiniteNumeric(value)
     /\ RoundedHalfUp(NumberOf(value), n).digits = <<>>)
        => fmt.ret = SignText(ValueNeg(value)) \o <<"0", ".", "0">>

\* the integer numeral of a number without fractional digits
IntegerText(x) == IF x.digits = <<>> THEN <<"0">> ELSE x.digits \o Rep("0", x.exp)

\* C19 (as claimed): at n = 0 the result for a finite value is the rounded
\* integer numeral: digits only after the sign, no point, no fractional
\* digit, the trailing zeros of the integer kept.
C19_ZeroPrecisionAsClaimed ==
    (Called /\ n = 0 /\ IsFiniteNumeric(value))
        => fmt.ret = SignText(ValueNeg(value))
                         \o IntegerText(RoundedHalfUp(NumberOf(value), 0))

\* C19 (amended): at n = 0 the result for a finite value whose rounded
\* integer has at most 28 digits (the decimal context's precision) is the
\* rounded integer numeral: digits only after the sign, no point, no
\* fractional digit, the trailing zeros of the integer kept; a value whose
\* rounded integer has more digits gives the empty string.
C19_ZeroPrecision ==
    (Called /\ n = 0 /\ IsFiniteNumeric(value))
        => fmt.ret = IF Len(IntegerText(RoundedHalfUp(NumberOf(value), 0))) > DecimalPrec
                     THEN <<>>
                     ELSE SignText(ValueNeg(value))
                              \o IntegerText(RoundedHalfUp(NumberOf(value), 0))

\* the integer 100 was formatted at n = 0 and kept its zeros
C19_Witness ==
    /\ Called
    /\ n = 0
    /\ value = PyInt(FALSE, <<"1", "0", "0">>)
    /\ fmt.ret = <<"1", "0", "0">>

\* the number a finite Decimal stands for
NumberOfDecimal(d) == Norm(d.sign, d.int, d.exp)

\* C28 (as claimed): trailing-zero stripping never changes the numeric
\* value: for every finite input and every n >= 0 the string returned from
\* the quantized decimal (exponent notation included) denotes the same
\* number as that quantized decimal.
C28_StrippingKeepsValue ==
    (Called /\ IsFiniteNumeric(value) /\ "str" \in Range(fmt.steps))
        => ReadNumeral(fmt.ret) = NumberOfDecimal(Quantize(DecimalOf(PyStr(value)), n))

(***************************************************************************)
(* Properties of control_decimal_precision, under SpecApply.               *)
(***************************************************************************)
Returned == outcome.called /\ outcome.raised = ""

\* the first position of cols_list holding a name the table t does not have
\* (0 when every name is a column of t)
FirstAbsent(cols_list, t) ==
    IF \E i \in 1..Len(cols_list) : cols_list[i] \notin DOMAIN t
    THEN CHOOSE i \in 1..Len(cols_list) :
             /\ cols_list[i] \notin DOMAIN t
             /\ \A j \in 1..(i - 1) : cols_list[j] \in DOMAIN t
    ELSE 0

\* C1: copy safety: a call control_decimal_precision(T, C, n) leaves T equal
\* to its pre-call state, values and column types, whether it returns or
\* fails, and a table it returns is an object other than T.
C1_CopySafety ==
    [][/\ heap'[df] = heap[df]
       /\ (outcome'.called /\ outcome'.raised = "")
              => outcome'.ret # df /\ outcome'.ret \in 1..Len(heap')]_vars

\* a call returned a table that differs from the caller's
C1_Witness ==
    /\ Returned
    /\ args.cols_list # <<>>
    /\ heap[outcome.ret] # heap[df]

\* C7 (as claimed): in the returned table every listed column c holds, row
\* by row, _format_decimal(T[c][i], n), with the row count kept and the
\* column string-typed; a bad cell gives "" at its own position only.
C7_ElementWise ==
    Returned =>
        \A c \in Range(args.cols_list) :
            LET r == heap[outcome.ret][c]
                t == heap[df][c]
            IN /\ Len(r.vals) = Len(t.vals)
               /\ IsStringDtype(r)
               /\ \A i \in 1..Len(t.vals) :
                      r.vals[i] = PyString(FormatDecimal(t.vals[i], args.n).ret)

\* C8: a column whose name is not in the column list has the same values,
\* row order and element type in the returned table as in the input table.
C8_OtherColumnsUntouched ==
    Returned =>
        /\ DOMAIN heap[outcome.ret] = DOMAIN heap[df]
        /\ \A c \in DOMAIN heap[df] \ Range(args.cols_list) :
               heap[outcome.ret][c] = heap[df][c]

\* a call changed a listed column of a table that has an unlisted,
\* non-string column as well
C8_Witness ==
    /\ Returned
    /\ \E c \in DOMAIN heap[df] \ Range(args.cols_list) : ~IsStringDtype(heap[df][c])
    /\ \E c \in Range(args.cols_list) : heap[outcome.ret][c] # heap[df][c]

\* C9: with n < 0 the call fails with ValueError, whatever the column list
\* (an absent name included), and nothing is copied or processed before.
C9_NegativePrecision ==
    [][(outcome'.called /\ args'.n < 0)
           => /\ outcome'.raised = "ValueError"
              /\ outcome'.ret = 0
              /\ heap' = heap]_vars

\* a call with a negative n and an absent column name failed
C9_Witness ==
    /\ outcome.called
    /\ args.n < 0
    /\ AbsentName \in Range(args.cols_list)
    /\ outcome.raised = "ValueError"

\* the formatter applied k times over to a column
RECURSIVE FormatTimes(_, _, _)
FormatTimes(col, nd, k) ==
    IF k = 0 THEN col ELSE FormatTimes(SeriesApplyFormat(col, nd), nd, k - 1)

\* how often a name stands among the first k entries of a list
Occurrences(cols_list, name, k) == Cardinality({j \in 1..k : cols_list[j] = name})

\* C10: with n >= 0 and a column list naming an absent column, wherever it
\* stands, the call fails with KeyError (not ValueError) and returns no
\* table; the caller's table is unchanged, while the internal copy exists
\* and has the names before the absent one already processed (formatted
\* once per occurrence).
C10_AbsentColumn ==
    [][(outcome'.called /\ args'.n >= 0 /\ FirstAbsent(args'.cols_list, heap[df]) # 0)
           => /\ outcome'.raised = "KeyError"
              /\ outcome'.ret = 0
              /\ heap'[df] = heap[df]
              /\ Len(heap') = Len(heap) + 1
              /\ \A j \in 1..(FirstAbsent(args'.cols_list, heap[df]) - 1) :
                     heap'[Len(heap')][args'.cols_list[j]]
                         = FormatTimes(heap[df][args'.cols_list[j]], args'.n,
                                       Occurrences(args'.cols_list, args'.cols_list[j],
                                                   FirstAbsent(args'.cols_list, heap[df]) - 1))]_vars

\* a call failed on an absent name after it had formatted a column in the copy
C10_Witness ==
    /\ outcome.called
    /\ outcome.raised = "KeyError"
    /\ args.cols_list = <<"a", AbsentName>>
    /\ Len(heap) = 2
    /\ "a" \in DOMAIN heap[df]
    /\ heap[2]["a"] # heap[df]["a"]

\* C15: an empty column list is a no-op that still copies: for every table
\* T (a table without columns and rows included) and every n >= 0 the call
\* control_decimal_precision(T, [], n) returns a table other than T itself
\* that equals T in every column, value and type, and T stays as it was.
C15_EmptyListCopies ==
    [][(outcome'.called /\ args'.cols_list = <<>> /\ args'.n >= 0)
           => /\ outcome'.raised = ""
              /\ outcome'.ret # df
              /\ outcome'.ret \in 1..Len(heap')
              /\ heap'[outcome'.ret] = heap[df]
              /\ heap'[df] = heap[df]]_vars

\* a call with an empty list returned a second table equal to a table that
\* has a column which is not string-typed
C15_Witness ==
    /\ Returned
    /\ args.cols_list = <<>>
    /\ outcome.ret # df
    /\ heap[outcome.ret] = heap[df]
    /\ \E c \in DOMAIN heap[df] : ~IsStringDtype(heap[df][c])

(***************************************************************************)
(* Properties of chained calls, under SpecChain.                           *)
(***************************************************************************)
\* two calls were made, the second on the result of the first, both returned
ChainedTwice ==
    /\ Len(calls) >= 2
    /\ calls[1].raised = ""
    /\ calls[2].raised = ""
    /\ calls[1].df = df
    /\ calls[2].df = calls[1].ret

\* C16 (as claimed): applying control_decimal_precision again to its own
\* result with the same column list and the same n reproduces the same
\* table: apply(apply(T, C, n), C, n) = apply(T, C, n), "" cells included.
C16_Reapplication ==
    (/\ ChainedTwice
     /\ calls[2].cols_list = calls[1].cols_list
     /\ calls[2].n = calls[1].n)
        => heap[calls[2].ret] = heap[calls[1].ret]

\* the table returned by a call made on a one-table heap
TableOf(done) == done.heap[done.ret]

\* C17: safe chaining: for disjoint column lists C1 and C2, after
\* apply(apply(T, C1, n1), C2, n2) the C1 columns are the strings the first
\* call produced (the second call left them untouched), the C2 columns are
\* formatted at n2 as a call on T itself formats them, the other columns
\* are those of T, and the two calls made in the other order give the same
\* table.
C17_SafeChaining ==
    (ChainedTwice /\ Range(calls[1].cols_list) \cap Range(calls[2].cols_list) = {})
        => /\ \A c \in Range(calls[1].cols_list) :
                  /\ heap[calls[2].ret][c] = heap[calls[1].ret][c]
                  /\ IsStringDtype(heap[calls[2].ret][c])
           /\ \A c \in Range(calls[2].cols_list) :
                  /\ heap[calls[2].ret][c]
                         = TableOf(ControlDecimalPrecision(<<heap[df]>>, 1, calls[2].cols_list,
                                                           calls[2].n))[c]
                  /\ IsStringDtype(heap[calls[2].ret][c])
           /\ \A c \in DOMAIN heap[df]
                         \ (Range(calls[1].cols_list) \cup Range(calls[2].cols_list)) :
                  heap[calls[2].ret][c] = heap[df][c]
           /\ LET first == ControlDecimalPrecision(<<heap[df]>>, 1, calls[2].cols_list,
                                                   calls[2].n)
                  second == ControlDecimalPrecision(first.heap, first.ret, calls[1].cols_list,
                                                    calls[1].n)
              IN second.raised = "" /\ TableOf(second) = heap[calls[2].ret]

\* column a was formatted at 2 places and then column b at 0 places, and
\* both calls changed their column
C17_Witness ==
    /\ ChainedTwice
    /\ calls[1].cols_list = <<"a">> /\ calls[1].n = 2
    /\ calls[2].cols_list = <<"b">> /\ calls[2].n = 0
    /\ heap[calls[1].ret]["a"] # heap[df]["a"]
    /\ heap[calls[2].ret]["b"] # heap[df]["b"]
    /\ heap[calls[2].ret]["a"] = heap[calls[1].ret]["a"]

(***************************************************************************)
(* Properties of col_to_str, under SpecCoerce.                             *)
(***************************************************************************)
\* the cell astype("string") makes of a cell
StringCell(v) == IF v.kind \in {"None", "NA", "nan"} THEN PdNA ELSE PyString(PyStr(v))

\* what col_to_str is to make of the table t for the list cols_list: a listed
\* column that is string-typed and every unlisted column as it is, every
\* other listed column string-typed with its cells turned into strings
CoercedAsClaimed(res, t, cols_list) ==
    /\ DOMAIN res = DOMAIN t
    /\ \A c \in DOMAIN t :
           IF c \notin Range(cols_list) \/ IsStringDtype(t[c]) THEN res[c] = t[c]
           ELSE /\ res[c].dtype = "string"
                /\ Len(res[c].vals) = Len(t[c].vals)
                /\ \A i \in 1..Len(t[c].vals) : res[c].vals[i] = StringCell(t[c].vals[i])

\* C20: col_to_str(df, cols) leaves a listed column that is already
\* string-typed untouched, converts every other listed column to the string
\* type and leaves the unlisted columns unchanged; with inplace=True it
\* changes df itself, creates no table and returns None, with inplace=False
\* it returns a converted copy and leaves df unchanged.
C20_ColToStr ==
    [][(calls = <<>> /\ calls' # <<>> /\ calls'[1].op = "col_to_str" /\ calls'[1].raised = "")
           => IF calls'[1].inplace
              THEN /\ calls'[1].ret = 0
                   /\ Len(heap') = Len(heap)
                   /\ CoercedAsClaimed(heap'[df], heap[df], calls'[1].cols_list)
              ELSE /\ calls'[1].ret \in (1..Len(heap')) \ {df}
                   /\ heap'[df] = heap[df]
                   /\ CoercedAsClaimed(heap'[calls'[1].ret], heap[df], calls'[1].cols_list)]_vars

\* col_to_str with inplace=False returned a copy in which a listed column
\* was converted while a listed string-typed column stayed as it was
C20_Witness ==
    /\ calls # <<>>
    /\ calls[1].op = "col_to_str"
    /\ ~calls[1].inplace
    /\ calls[1].raised = ""
    /\ calls[1].cols_list = <<"a", "b">>
    /\ heap[calls[1].ret]["a"] # heap[df]["a"]
    /\ IsStringDtype(heap[df]["b"])

(***************************************************************************)
(* CalendarCal: what the properties are checked against.                   *)
(***************************************************************************)
\* a string of six digits, a year of 2000..2050 then a month of 1..12
IsValidYearMonth(text) ==
    /\ Len(text) = 6
    /\ AllDigits(text)
    /\ TextNat(SubSeq(text, 1, 4)) \in 2000..2050
    /\ TextNat(SubSeq(text, 5, 6)) \in 1..12

Constructed == cal.called /\ cal.raised = ""

\* C21 (as claimed): construction succeeds exactly for a string of six
\* digits with a year of 2000..2050 and a month of 1..12; every other
\* argument raises AssertionError, the one of the format when the length is
\* wrong or a character is no digit, and no object is made.
C21_ConstructionValidates ==
    cal.called =>
        IF IsValidYearMonth(cal.yr_mth)
        THEN cal.raised = "" /\ cal.obj.yr_mth = cal.yr_mth
        ELSE /\ cal.raised = "AssertionError"
             /\ cal.obj = NoCalObject
             /\ (Len(cal.yr_mth) # 6 \/ ~AllDigits(cal.yr_mth))
                   => cal.failed = "Invalid year-month format"

\* the same, for arguments made of the characters 0..9 and of characters
\* for which isdigit() is false
C21_HoldsOnPlainCharacters ==
    (cal.called /\ \A i \in 1..Len(cal.yr_mth) : cal.yr_mth[i] \notin SuperscriptDigits)
        => C21_ConstructionValidates

\* the year and the month a valid argument names
YearOf(text) == TextNat(SubSeq(text, 1, 4))

MonthOf(text) == TextNat(SubSeq(text, 5, 6))

\* the number of days of a month, by the calendar's rule
MonthLength(y, m) ==
    IF m = 2
    THEN (IF (y % 4 = 0 /\ y % 100 # 0) \/ y % 400 = 0 THEN 29 ELSE 28)
    ELSE 30 + ((m + (m \div 8)) % 2)

\* Zeller's congruence: 0 Saturday, 1 Sunday, 2 Monday, ...
Zeller(y, m, d) ==
    LET mm == IF m < 3 THEN m + 12 ELSE m
        yy == IF m < 3 THEN y - 1 ELSE y
    IN  (d + ((13 * (mm + 1)) \div 5) + (yy % 100) + ((yy % 100) \div 4)
           + ((yy \div 100) \div 4) + 5 * (yy \div 100)) % 7

IsSunday(y, m, d) == Zeller(y, m, d) = 1

\* the days of the month that are Sundays
SundaysOf(y, m) == {d \in 1..MonthLength(y, m) : IsSunday(y, m, d)}

\* the i-th smallest member of a set of numbers
Nth(S, i) == CHOOSE d \in S : Cardinality({e \in S : e <= d}) = i

TwoDigits(k) == <<DigitChar(k \div 10), DigitChar(k % 10)>>

FourDigits(k) == TwoDigits(k \div 100) \o TwoDigits(k % 100)

\* a date written in one of the formats
Written(y, m, d, dt_fmt) ==
    CASE dt_fmt = <<"%", "Y", "%", "m", "%", "d">>
           -> FourDigits(y) \o TwoDigits(m) \o TwoDigits(d)
      [] dt_fmt = <<"%", "Y", "-", "%", "m", "-", "%", "d">>
           -> FourDigits(y) \o <<"-">> \o TwoDigits(m) \o <<"-">> \o TwoDigits(d)
      [] dt_fmt = <<"%", "d", "/", "%", "m", "/", "%", "Y">>
           -> TwoDigits(d) \o <<"/">> \o TwoDigits(m) \o <<"/">> \o FourDigits(y)

HasRead(prop) == Constructed /\ read.prop = prop

\* C22: for every valid year-month wks_lst is the Sundays of the month and
\* nothing else, ascending, each written with dt_fmt; there are 4 or 5.
C22_WksLstIsTheSundays ==
    HasRead("wks_lst") =>
        LET y == YearOf(cal.yr_mth)
            m == MonthOf(cal.yr_mth)
            S == SundaysOf(y, m)
        IN  /\ read.raised = ""
            /\ Cardinality(S) \in {4, 5}
            /\ read.val = [i \in 1..Cardinality(S) |-> Written(y, m, Nth(S, i), cal.dt_fmt)]

\* a month of five Sundays whose last day is a Sunday, read in the format
\* day/month/year
C22_Witness ==
    /\ HasRead("wks_lst")
    /\ Len(read.val) = 5
    /\ cal.yr_mth = <<"2", "0", "2", "5", "1", "1">>
    /\ read.val[5] = <<"3", "0", "/", "1", "1", "/", "2", "0", "2", "5">>

\* the month before a month
PrevMonthYear(y, m) == IF m = 1 THEN y - 1 ELSE y

PrevMonthMonth(m) == IF m = 1 THEN 12 ELSE m - 1

\* the day k of the month, where k = 0, -1, ... count back into the month
\* before
WrittenFrom(y, m, k, dt_fmt) ==
    IF k >= 1 THEN Written(y, m, k, dt_fmt)
    ELSE Written(PrevMonthYear(y, m), PrevMonthMonth(m),
                 MonthLength(PrevMonthYear(y, m), PrevMonthMonth(m)) + k, dt_fmt)

\* the weekly list as claimed: the days from six days before the first
\* Sunday through the last Sunday
WeeklyAsClaimed(y, m, dt_fmt) ==
    LET S == SundaysOf(y, m)
        first == Nth(S, 1)
    IN  [i \in 1..(7 * Cardinality(S)) |-> WrittenFrom(y, m, first - 7 + i, dt_fmt)]

HasReadWeekly == HasRead("dates_lst") /\ cal.time_dim = "weekly"

\* C23 (as claimed): with time_dim "weekly", for every valid year-month,
\* dates_lst is the run of consecutive days from the Monday six days before
\* the month's first Sunday through its last Sunday: 7 entries per Sunday,
\* the 7th being wks_lst[0] and the last wks_lst[-1], starting at most 6
\* days before the month and ending 0 to 6 days before its last day.
C23_WeeklyDatesLst ==
    HasReadWeekly =>
        LET y == YearOf(cal.yr_mth)
            m == MonthOf(cal.yr_mth)
            S == SundaysOf(y, m)
        IN  /\ read.raised = ""
            /\ read.val = WeeklyAsClaimed(y, m, cal.dt_fmt)
            /\ Len(read.val) = 7 * Cardinality(S)
            /\ read.val[7] = Written(y, m, Nth(S, 1), cal.dt_fmt)
            /\ read.val[Len(read.val)] = Written(y, m, Nth(S, Cardinality(S)), cal.dt_fmt)
            /\ Nth(S, 1) \in 1..7
            /\ MonthLength(y, m) - Nth(S, Cardinality(S)) \in 0..6

\* the same holds whenever the format puts the year first, and in the
\* format day/month/year whenever the month does not begin on a Monday
C23_HoldsElsewhere ==
    (/\ HasReadWeekly
     /\ \/ cal.dt_fmt[2] = "Y"
        \/ Nth(SundaysOf(YearOf(cal.yr_mth), MonthOf(cal.yr_mth)), 1) # 7)
        => C23_WeeklyDatesLst

\* every day of the month, written
MonthAsClaimed(y, m, dt_fmt) == [i \in 1..MonthLength(y, m) |-> Written(y, m, i, dt_fmt)]

\* the other of "monthly" and "half_month"
OtherMonthlyDim(time_dim) == IF time_dim = "monthly" THEN "half_month" ELSE "monthly"

HasReadMonthly == HasRead("dates_lst") /\ cal.time_dim \in {"monthly", "half_month"}

\* C24: with time_dim "monthly" or "half_month" dates_lst is every day of
\* the month from the 1st to the last, in order; its length is the number of
\* days of the month (28, 29 in a leap February, 30, 31); the list is the
\* same for the two values of time_dim.
C24_MonthlyDatesLst ==
    HasReadMonthly =>
        LET y == YearOf(cal.yr_mth)
            m == MonthOf(cal.yr_mth)
        IN  /\ read.raised = ""
            /\ read.val = MonthAsClaimed(y, m, cal.dt_fmt)
            /\ Len(read.val) = MonthLength(y, m)
            /\ Len(read.val) \in {28, 29, 30, 31}
            /\ (Len(read.val) = 29) = (m = 2 /\ y % 4 = 0)
            /\ read.val = DatesLst([cal.obj EXCEPT !.time_dim = OtherMonthlyDim(cal.time_dim)]).val

\* the half_month list of a leap February has been read
C24_Witness ==
    /\ HasRead("dates_lst")
    /\ cal.time_dim = "half_month"
    /\ cal.yr_mth = <<"2", "0", "2", "4", "0", "2">>
    /\ Len(read.val) = 29
    /\ read.val[29] = <<"2", "9", "/", "0", "2", "/", "2", "0", "2", "4">>

Supported == {"weekly", "half_month", "monthly"}

\* C25: a time_dim outside "weekly", "half_month", "monthly" is accepted by
\* the constructor; every read of dates_lst then raises ValueError, and
\* wks_lst, next_month_start_date, current_month_last_date and last_month
\* answer what they answer for a supported time_dim.
C25_UnsupportedTimeDim ==
    (cal.called /\ cal.time_dim \notin Supported) =>
        /\ IsValidYearMonth(cal.yr_mth) => cal.raised = ""
        /\ cal.raised = CalendarCal(cal.yr_mth, cal.dt_fmt, "weekly").raised
        /\ HasRead("dates_lst") => read.raised = "ValueError" /\ read.val = <<>>
        /\ (Constructed /\ read.prop \notin {"", "dates_lst"}) =>
              LET y == YearOf(cal.yr_mth)
                  m == MonthOf(cal.yr_mth)
                  S == SundaysOf(y, m)
              IN  /\ read.raised = ""
                  /\ read.prop = "wks_lst" =>
                        read.val = [i \in 1..Cardinality(S) |-> Written(y, m, Nth(S, i), cal.dt_fmt)]
                  /\ read.prop = "current_month_last_date" =>
                        read.val = Written(y, m, MonthLength(y, m), cal.dt_fmt)
                  /\ read.prop = "next_month_start_date" =>
                        read.val = Written(IF m = 12 THEN y + 1 ELSE y, (m % 12) + 1, 1, cal.dt_fmt)
                  /\ read.prop = "last_month" =>
                        read.val = FourDigits(PrevMonthYear(y, m)) \o TwoDigits(PrevMonthMonth(m))

\* dates_lst of an object made with an unsupported time_dim has been read
C25_Witness ==
    /\ Constructed
    /\ cal.time_dim = "daily"
    /\ read.prop = "dates_lst"
    /\ read.raised = "ValueError"

\* another property of such an object has been read
C25_WitnessOther ==
    /\ Constructed
    /\ cal.time_dim = "daily"
    /\ read.prop = "wks_lst"
    /\ Len(read.val) = 5

\* the day after a day of a month
DayAfterYear(y, m, d) == IF d = MonthLength(y, m) /\ m = 12 THEN y + 1 ELSE y

DayAfterMonth(y, m, d) == IF d = MonthLength(y, m) THEN (m % 12) + 1 ELSE m

DayAfterDay(y, m, d) == IF d = MonthLength(y, m) THEN 1 ELSE d + 1

\* C26: for every valid year-month current_month_last_date is the last day
\* of the month, leap years included; next_month_start_date is the 1st of
\* the month after, December going to January of the next year; the second
\* is the day after the first.
C26_MonthBoundary ==
    Constructed =>
        LET y == YearOf(cal.yr_mth)
            m == MonthOf(cal.yr_mth)
            last == MonthLength(y, m)
        IN  /\ read.prop = "current_month_last_date" =>
                /\ read.raised = ""
                /\ read.val = Written(y, m, last, cal.dt_fmt)
                /\ NextMonthStartDate(cal.obj).val
                     = Written(DayAfterYear(y, m, last), DayAfterMonth(y, m, last),
                               DayAfterDay(y, m, last), cal.dt_fmt)
            /\ read.prop = "next_month_start_date" =>
                /\ read.raised = ""
                /\ read.val = Written(IF m = 12 THEN y + 1 ELSE y, (m % 12) + 1, 1, cal.dt_fmt)
                /\ ParseWithFormat(read.val, cal.dt_fmt)
                     = AddDays(ParseWithFormat(CurrentMonthLastDate(cal.obj).val, cal.dt_fmt), 1)

\* next_month_start_date of a December has been read
C26_Witness ==
    /\ HasRead("next_month_start_date")
    /\ cal.yr_mth = <<"2", "0", "2", "5", "1", "2">>
    /\ read.val = <<"2", "0", "2", "6", "0", "1", "0", "1">>

\* current_month_last_date of a leap February has been read
C26_WitnessLeap ==
    /\ HasRead("current_month_last_date")
    /\ cal.yr_mth = <<"2", "0", "2", "4", "0", "2">>
    /\ read.val = <<"2", "0", "2", "4", "-", "0", "2", "-", "2", "9">>

\* C27: for every valid year-month last_month is the month before as six
\* digits YYYYMM whatever dt_fmt is, January going back to December of the
\* year before; it is one month before the current month and two before the
\* month of next_month_start_date.
C27_LastMonth ==
    HasRead("last_month") =>
        LET y == YearOf(cal.yr_mth)
            m == MonthOf(cal.yr_mth)
            next == ParseWithFormat(NextMonthStartDate(cal.obj).val, cal.dt_fmt)
        IN  /\ read.raised = ""
            /\ Len(read.val) = 6
            /\ AllDigits(read.val)
            /\ read.val = FourDigits(PrevMonthYear(y, m)) \o TwoDigits(PrevMonthMonth(m))
            /\ 12 * YearOf(read.val) + MonthOf(read.val) + 1 = 12 * y + m
            /\ 12 * YearOf(read.val) + MonthOf(read.val) + 2 = 12 * next.y + next.m

\* last_month of a January has been read from an object with another dt_fmt
C27_Witness ==
    /\ HasRead("last_month")
    /\ cal.yr_mth = <<"2", "0", "2", "5", "0", "1">>
    /\ cal.dt_fmt = <<"%", "Y", "-", "%", "m", "-", "%", "d">>
    /\ read.val = <<"2", "0", "2", "4", "1", "2">>

(***************************************************************************)
(* custom_dfs_concat (data_ops.py).  A frame here is                       *)
(* [columns, index, rows]: the column labels in order, the row labels in   *)
(* order, and one tuple of cells per row; a reference is a position of     *)
(* heap, 0 standing for None.                                              *)
(***************************************************************************)
MaxDfList == 3

MkFrame(columns, index, rows) == [columns |-> columns, index |-> index, rows |-> rows]

\* pd.DataFrame()
EmptyFrame == MkFrame(<<>>, <<>>, <<>>)

\* the frames the caller holds: two of the same columns, the second with an
\* index that does not start at 0; the same columns in another order; fewer
\* columns; frames of no rows with the same and with other columns; the
\* empty frame; a frame of one row and no column
CallerFrames ==
    << MkFrame(<<"a", "b">>, <<0>>, << <<1, 2>> >>),
       MkFrame(<<"a", "b">>, <<5, 3>>, << <<3, 4>>, <<5, 6>> >>),
       MkFrame(<<"b", "a">>, <<0>>, << <<7, 8>> >>),
       MkFrame(<<"a">>, <<0>>, << <<9>> >>),
       MkFrame(<<"a", "b">>, <<>>, <<>>),
       MkFrame(<<"c">>, <<>>, <<>>),
       EmptyFrame,
       MkFrame(<<>>, <<7>>, << <<>> >>) >>

\* len(df): the number of rows
FrameLen(frame) == Len(frame.index)

\* line 16: the references that are not None and have a row
RECURSIVE FilterFrames(_, _, _)
FilterFrames(h, df_list, i) ==
    IF i > Len(df_list) THEN <<>>
    ELSE IF df_list[i] # 0 /\ FrameLen(h[df_list[i]]) > 0
    THEN <<df_list[i]>> \o FilterFrames(h, df_list, i + 1)
    ELSE FilterFrames(h, df_list, i + 1)

\* the filter of line 16 dropping None only
RECURSIVE FilterNone(_, _, _)
FilterNone(h, df_list, i) ==
    IF i > Len(df_list) THEN <<>>
    ELSE IF df_list[i] # 0
    THEN <<df_list[i]>> \o FilterNone(h, df_list, i + 1)
    ELSE FilterNone(h, df_list, i + 1)

\* Index.equals: the same labels in the same order
ColumnsEqual(c1, c2) == c1 = c2

\* line 25: every frame has the columns of the first
AllColumnsEqual(h, refs) ==
    \A i \in 1..Len(refs) : ColumnsEqual(h[refs[1]].columns, h[refs[i]].columns)

\* the rows of the frames, one frame after the other
RECURSIVE RowsOf(_, _, _)
RowsOf(h, refs, i) ==
    IF i > Len(refs) THEN <<>> ELSE h[refs[i]].rows \o RowsOf(h, refs, i + 1)

\* ignore_index=True: the labels 0..count-1
RangeIndex(count) == [i \in 1..count |-> i - 1]

\* the frame of the given columns and rows under a fresh index
Reindexed(columns, rows) == MkFrame(columns, RangeIndex(Len(rows)), rows)

\* pd.concat(df_list, axis=0, ignore_index=True) of frames of equal columns
PdConcat(h, refs) == Reindexed(h[refs[1]].columns, RowsOf(h, refs, 1))

\* a new object placed on the heap and returned
NewFrame(h, frame) == Outcome(Append(h, frame), "", Len(h) + 1)

\* lines 18-26, after the filtering
ConcatFiltered(h, refs) ==
    IF Len(refs) = 0 THEN NewFrame(h, EmptyFrame)
    ELSE IF Len(refs) = 1 THEN NewFrame(h, h[refs[1]])
    ELSE IF ~AllColumnsEqual(h, refs) THEN Outcome(h, "AssertionError", 0)
    ELSE NewFrame(h, PdConcat(h, refs))

\* custom_dfs_concat keeping the frames of no rows
CustomDfsConcatKeepEmpty(h, df_list) == ConcatFiltered(h, FilterNone(h, df_list, 1))

\* custom_dfs_concat(df_list)
CustomDfsConcat(h, df_list) == ConcatFiltered(h, FilterFrames(h, df_list, 1))

\* the lists of up to MaxDfList entries, each None or one of the frames
DfLists == UNION {[1..k -> 0..Len(CallerFrames)] : k \in 0..MaxDfList}

NoConcatArgs == [df_list |-> <<>>]

InitConcat ==
    /\ FormatIdle
    /\ heap = CallerFrames
    /\ df = 0
    /\ args = NoConcatArgs
    /\ outcome = NoOutcome
    /\ calls = <<>>
    /\ CalendarIdle
    /\ LoggerIdle

\* the call custom_dfs_concat(df_list)
Concat(df_list) ==
    /\ ~outcome.called
    /\ Finish(CustomDfsConcat(heap, df_list))
    /\ args' = [df_list |-> df_list]
    /\ UNCHANGED <<df, calls>>
    /\ UNCHANGED fmtVars
    /\ UNCHANGED <<calVars, logsys>>

NextConcat == \E df_list \in DfLists : Concat(df_list)

SpecConcat == InitConcat /\ [][NextConcat]_vars

\* the entries of the list that are frames with at least one row
KeptOf(df_list) == SelectSeq(df_list, LAMBDA r : r # 0 /\ CallerFrames[r].rows # <<>>)

\* the number of rows of the first k frames of refs
RECURSIVE RowsBefore(_, _)
RowsBefore(refs, k) ==
    IF k = 0 THEN 0 ELSE RowsBefore(refs, k - 1) + Len(CallerFrames[refs[k]].rows)

\* the frame returned is an object the caller did not hold
ReturnedNew == outcome.raised = "" /\ outcome.ret > Len(CallerFrames) /\ outcome.ret <= Len(heap)

\* C29: custom_dfs_concat first drops None and the frames of no rows; with
\* nothing left it returns an empty DataFrame; with one frame left, a copy
\* of it and never the frame itself; with two or more, AssertionError unless
\* all have the same columns in the same order, and otherwise their rows in
\* list order under the index 0..N-1, N the sum of the row counts; a frame
\* of no rows and other columns is dropped without failing the column test;
\* no input frame is changed.
C29_CustomDfsConcat ==
    outcome.called =>
        LET kept == KeptOf(args.df_list)
            total == RowsBefore(kept, Len(kept))
            same == \A i \in 1..Len(kept) :
                        CallerFrames[kept[i]].columns = CallerFrames[kept[1]].columns
        IN  /\ SubSeq(heap, 1, Len(CallerFrames)) = CallerFrames
            /\ Len(kept) = 0 => ReturnedNew /\ heap[outcome.ret] = EmptyFrame
            /\ Len(kept) = 1 => ReturnedNew /\ heap[outcome.ret] = CallerFrames[kept[1]]
            /\ (Len(kept) >= 2 /\ ~same) => outcome.raised = "AssertionError"
            /\ (Len(kept) >= 2 /\ same) =>
                  /\ ReturnedNew
                  /\ heap[outcome.ret].columns = CallerFrames[kept[1]].columns
                  /\ heap[outcome.ret].index = [p \in 1..total |-> p - 1]
                  /\ Len(heap[outcome.ret].rows) = total
                  /\ \A i \in 1..Len(kept) : \A j \in 1..Len(CallerFrames[kept[i]].rows) :
                        heap[outcome.ret].rows[RowsBefore(kept, i - 1) + j]
                            = CallerFrames[kept[i]].rows[j]

\* two frames of the same columns were concatenated around a frame of no
\* rows and other columns
C29_Witness ==
    /\ outcome.called
    /\ args.df_list = <<2, 6, 1>>
    /\ ReturnedNew
    /\ heap[outcome.ret] = MkFrame(<<"a", "b">>, <<0, 1, 2>>, << <<3, 4>>, <<5, 6>>, <<1, 2>> >>)

\* one frame was left and a copy of it came back
C29_WitnessCopy ==
    /\ outcome.called
    /\ args.df_list = <<0, 5, 2>>
    /\ ReturnedNew
    /\ outcome.ret # 2
    /\ heap[outcome.ret] = CallerFrames[2]

(***************************************************************************)
(* setup_logger and the module logger (logger_utils.py).  The folder can   *)
(* be created and the log file opened; the root logger has no handler, as  *)
(* at the start of the interpreter.  logsys.last tells what the last       *)
(* operation wrote: how many lines on the console (sys.stderr) and how     *)
(* many into log files.                                                    *)
(***************************************************************************)
MaxSetups == 3

\* logging's numeric levels
LevelNo(level) ==
    CASE level = "DEBUG" -> 10
      [] level = "INFO" -> 20
      [] level = "WARNING" -> 30
      [] level = "ERROR" -> 40

\* logger.setLevel(logging.INFO), line 10
LoggerLevel == "INFO"

\* logging.lastResort: a stderr handler of level WARNING, used when no
\* handler is found
LastResortLevel == "WARNING"

\* Path(log_folder).joinpath(f"logger_{now}.log")
LogFilename(log_folder, now) == <<log_folder, "logger_", now, ".log">>

\* lines 51-52 and 62-63
FileHandler(log_filename) ==
    [kind |-> "file", level |-> "INFO", target |-> log_filename, formatter |-> "Formatter"]

\* lines 54-60 and 64
StreamHandler(run_mode) ==
    [kind |-> "stream", level |-> "INFO", target |-> <<"sys.stderr">>,
     formatter |-> IF run_mode = "PROD" THEN "Formatter" ELSE "InfoLevelFormatter"]

\* the handlers of the given kind that accept a record of the level
Emitting(handlers, kind, level) ==
    {i \in DOMAIN handlers :
        handlers[i].kind = kind /\ LevelNo(level) >= LevelNo(handlers[i].level)}

\* Logger.callHandlers: every handler of the logger gets the record; with no
\* handler at all the last-resort handler writes it to stderr if its level
\* allows
CallHandlers(handlers, op, arg, level) ==
    IF handlers = <<>>
    THEN [op |-> op, arg |-> arg, record |-> TRUE,
          console |-> IF LevelNo(level) >= LevelNo(LastResortLevel) THEN 1 ELSE 0,
          file |-> 0]
    ELSE [op |-> op, arg |-> arg, record |-> TRUE,
          console |-> Cardinality(Emitting(handlers, "stream", level)),
          file |-> Cardinality(Emitting(handlers, "file", level))]

\* logger.log(level, ...): no record is made below the logger's level
LoggerLog(handlers, op, arg, level) ==
    IF LevelNo(level) < LevelNo(LoggerLevel)
    THEN [op |-> op, arg |-> arg, record |-> FALSE, console |-> 0, file |-> 0]
    ELSE CallHandlers(handlers, op, arg, level)

\* lines 49-74, the run mode not being "REGR"
Installed(ls, handlers, log_folder, log_filename, run_mode) ==
    [handlers |-> handlers \o <<FileHandler(log_filename), StreamHandler(run_mode)>>,
     excepthook |-> "handle_exception",
     dirs |-> ls.dirs \cup {log_folder},
     files |-> ls.files \cup {log_filename},
     last |-> [op |-> "setup_logger", arg |-> run_mode, record |-> FALSE, console |-> 0,
               file |-> 0]]

\* setup_logger taking the place of the handlers installed before
SetupLoggerReplacing(ls, log_folder, run_mode, now) ==
    IF run_mode = "REGR" THEN ls
    ELSE Installed(ls, <<>>, log_folder, LogFilename(log_folder, now), run_mode)

\* setup_logger(log_folder, run_mode), called at the time now
SetupLogger(ls, log_folder, run_mode, now) ==
    IF run_mode = "REGR" THEN ls
    ELSE Installed(ls, ls.handlers, log_folder, LogFilename(log_folder, now), run_mode)

\* issubclass(exc_type, KeyboardInterrupt)
InterruptClasses == {"KeyboardInterrupt", "SubclassOfKeyboardInterrupt"}

\* handle_exception (lines 69-72)
HandleException(handlers, exc_type) ==
    IF exc_type \in InterruptClasses
    THEN [op |-> "excepthook", arg |-> exc_type, record |-> FALSE, console |-> 0, file |-> 0]
    ELSE LoggerLog(handlers, "excepthook", exc_type, "ERROR")

\* sys.__excepthook__ prints the traceback on stderr
DefaultHook(exc_type) ==
    [op |-> "sys.__excepthook__", arg |-> exc_type, record |-> FALSE, console |-> 1, file |-> 0]

\* an exception nobody caught reaches sys.excepthook
Excepthook(ls, exc_type) ==
    IF ls.excepthook = "handle_exception" THEN HandleException(ls.handlers, exc_type)
    ELSE DefaultHook(exc_type)

RunModes == {"TEST", "PROD", "REGR"}

LogFolders == {"logs", "out"}

\* the second of the clock at a call, counted from the first call
Clock == 0..1

Levels == {"DEBUG", "INFO", "WARNING", "ERROR"}

ExceptionTypes == {"ValueError", "Exception"} \cup InterruptClasses

InitLogger ==
    /\ FormatIdle
    /\ ApplyIdle
    /\ CalendarIdle
    /\ LoggerIdle

\* the call setup_logger(log_folder, run_mode) at the second now, no earlier
\* than the call before; calls keeps the calls made
Setup(log_folder, run_mode, now) ==
    /\ Len(calls) < MaxSetups
    /\ calls # <<>> => now >= calls[Len(calls)].now
    /\ logsys' = SetupLogger(logsys, log_folder, run_mode, now)
    /\ calls' = Append(calls, [op |-> "setup_logger", log_folder |-> log_folder,
                               run_mode |-> run_mode, now |-> now])
    /\ UNCHANGED <<heap, df, args, outcome>>
    /\ UNCHANGED <<fmtVars, calVars>>

\* logger.debug / info / warning / error from anywhere in the program
Log(level) ==
    /\ logsys' = [logsys EXCEPT !.last = LoggerLog(logsys.handlers, "log", level, level)]
    /\ UNCHANGED <<fmtVars, tblVars, calVars>>

\* an exception of the type is raised and never caught
Unhandled(exc_type) ==
    /\ logsys' = [logsys EXCEPT !.last = Excepthook(logsys, exc_type)]
    /\ UNCHANGED <<fmtVars, tblVars, calVars>>

NextLogger ==
    \/ \E log_folder \in LogFolders, run_mode \in RunModes, now \in Clock :
          Setup(log_folder, run_mode, now)
    \/ \E level \in Levels : Log(level)
    \/ \E exc_type \in ExceptionTypes : Unhandled(exc_type)

SpecLogger == InitLogger /\ [][NextLogger]_vars

\* the calls of setup_logger made with a run mode other than "REGR"
NonRegrCalls == SelectSeq(calls, LAMBDA c : c.run_mode # "REGR")

\* the handlers k calls other than "REGR" leave: per call, in order, a file
\* handler on the call's log file and a stream handler
HandlersAsClaimed ==
    [i \in 1..(2 * Len(NonRegrCalls)) |->
        IF i % 2 = 1
        THEN [kind |-> "file", level |-> "INFO", formatter |-> "Formatter",
              target |-> <<NonRegrCalls[(i + 1) \div 2].log_folder, "logger_",
                           NonRegrCalls[(i + 1) \div 2].now, ".log">>]
        ELSE [kind |-> "stream", level |-> "INFO", target |-> <<"sys.stderr">>,
              formatter |-> IF NonRegrCalls[i \div 2].run_mode = "PROD" THEN "Formatter"
                            ELSE "InfoLevelFormatter"]]

\* what the calls made so far leave behind, as claimed: nothing for "REGR",
\* and for k other calls 2k handlers, none removed, the directories of
\* those calls, and the hook installed
SetupsAsClaimed ==
    /\ logsys.handlers = HandlersAsClaimed
    /\ Len(logsys.handlers) = 2 * Len(NonRegrCalls)
    /\ logsys.dirs = {NonRegrCalls[i].log_folder : i \in 1..Len(NonRegrCalls)}
    /\ (logsys.excepthook = "sys.__excepthook__") = (NonRegrCalls = <<>>)
    /\ NonRegrCalls = <<>> => logsys.handlers = <<>> /\ logsys.dirs = {} /\ logsys.files = {}

\* the installed hook logs every exception except KeyboardInterrupt, and
\* what it logs is a record like any other
HookAsClaimed ==
    (logsys.last.op = "excepthook") =>
        /\ logsys.last.record = (logsys.last.arg \notin {"KeyboardInterrupt",
                                                         "SubclassOfKeyboardInterrupt"})
        /\ ~logsys.last.record => logsys.last.console = 0 /\ logsys.last.file = 0

\* C30 (as claimed): a call of setup_logger with run_mode "REGR" changes
\* nothing; every other call adds one file handler and one stream handler
\* and removes none, so that after k such calls, "REGR" calls in between or
\* not, the logger has 2k handlers and each record is written k times to the
\* console; the installed hook logs every unhandled exception except
\* KeyboardInterrupt.
C30_HandlersAccumulateAsClaimed ==
    /\ SetupsAsClaimed
    /\ HookAsClaimed
    /\ logsys.last.record => logsys.last.console = Len(NonRegrCalls)

\* C30 (amended): the same, each record being written k times to the
\* console for k >= 1; with k = 0 the logger has no handler, a record of
\* level INFO is written nowhere and a record of level WARNING or above is
\* written once to the console by logging's last-resort handler.
C30_HandlersAccumulate ==
    /\ SetupsAsClaimed
    /\ HookAsClaimed
    /\ (logsys.last.record /\ Len(NonRegrCalls) >= 1) =>
          logsys.last.console = Len(NonRegrCalls) /\ logsys.last.file = Len(NonRegrCalls)
    /\ (logsys.last.record /\ Len(NonRegrCalls) = 0) =>
          /\ logsys.last.file = 0
          /\ logsys.last.console = IF logsys.last.arg = "INFO" THEN 0 ELSE 1

\* after a "TEST", a "REGR" and a "PROD" call a record was written twice
C30_Witness ==
    /\ Len(calls) = 3
    /\ calls[1].run_mode = "TEST" /\ calls[2].run_mode = "REGR" /\ calls[3].run_mode = "PROD"
    /\ Len(logsys.handlers) = 4
    /\ logsys.last.op = "log"
    /\ logsys.last.record
    /\ logsys.last.console = 2

\* with "REGR" calls only, a warning was written once to the console
C30_WitnessNoHandler ==
    /\ calls # <<>>
    /\ NonRegrCalls = <<>>
    /\ logsys.last.op = "log"
    /\ logsys.last.arg = "WARNING"
    /\ logsys.last.console = 1

\* the hook met a KeyboardInterrupt and logged nothing
C30_WitnessInterrupt ==
    /\ logsys.excepthook = "handle_exception"
    /\ logsys.last.op = "excepthook"
    /\ logsys.last.arg = "KeyboardInterrupt"
    /\ ~logsys.last.record

====
